---- MODULE Spec2Model ----
(***************************************************************************)
(* Whole-life-carbon accounting engine for a solar PV installation.        *)
(*                                                                         *)
(* Numbers.  Python floats are modelled as exact decimal fixed-point       *)
(* integers; every quantity names its unit:                                *)
(*   material factors     1e-3 kgCO2e/kg     material masses   kg          *)
(*   grid factors         1e-3 kgCO2e/kWh    (= gCO2/kWh)                  *)
(*   transport factors    1e-5 kgCO2e/tkm                                  *)
(*   reported kgCO2e      1e-2 kg  (round(x, 2))                           *)
(*   reported tonnesCO2e  1e-3 t   (round(x / 1000.0, 3))                  *)
(* round() is Python's round-half-to-even on the exact decimal value.      *)
(* A binary float that stands for a decimal tie (x.xx5) lies a few ulps to  *)
(* one side of it, so at such ties the float code may return either        *)
(* neighbour; properties stated here with a tolerance cover both.          *)
(***************************************************************************)
EXTENDS Integers, Sequences, FiniteSets, TLC

VARIABLES
    _owid_cache,   \* emissions_factors._owid_cache: None or the processed table
    pc,            \* per request thread: position inside calculate()
    req,           \* per request thread: the SolarInput being served
    attempt,       \* per request thread: loop variable of _load_owid_data
    wait_time,     \* per request thread: the pending time.sleep() argument
    ef,            \* per request thread: the resolved EmissionFactor
    pvgis,         \* per request thread: what get_pvgis_hourly returned or raised
    pvgis_data,    \* per request thread: calculate's local `data`, the fetched frame
    response,      \* per request thread: what calculate() returned or raised
    call,          \* a direct call of a library function: function and arguments
    ret            \* a direct call of a library function: its result or exception

vars == <<_owid_cache, pc, req, attempt, wait_time, ef, pvgis, pvgis_data, response, call, ret>>

serverVars == <<pc, req, attempt, wait_time, ef, pvgis, pvgis_data, response>>

(***************************************************************************)
(* Bounds of the model.                                                    *)
(***************************************************************************)
MaxOverride == 1      \* largest override value tried (1e-3 units)
MaxQty == 1           \* largest material mass tried (kg)
NumThreads == 2       \* request threads of the server's thread pool
MaxLegs == 2          \* longest list of transport legs tried
MaxAttempt == 4       \* cap of the attempt counter, above every value the loop reaches

(***************************************************************************)
(* Python values.                                                          *)
(***************************************************************************)
None == [is_none |-> TRUE, v |-> 0]

Some(x) == [is_none |-> FALSE, v |-> x]

\* a call that returned x
Return(x) == [raised |-> "", msg |-> <<>>, value |-> x]

\* a call that raised an exception of the given type with the given message parts
Raise(type, msg) == [raised |-> type, msg |-> msg, value |-> <<>>]

Abs(x) == IF x < 0 THEN -x ELSE x

\* round(n / d) to the nearest integer, ties to the even neighbour (d > 0)
RoundHalfEven(n, d) ==
    LET q == n \div d
        r == n % d
    IN  IF 2 * r < d THEN q
        ELSE IF 2 * r > d THEN q + 1
        ELSE IF q % 2 = 0 THEN q ELSE q + 1

NoneStr == [is_none |-> TRUE, v |-> ""]

\* Python `x or default` for Optional[str]: None and "" are falsy
OrStr(x, default) == IF x.is_none \/ x.v = "" THEN default ELSE x.v

\* Python `x or default` for Optional[float]: None and 0 are falsy
OrNum(x, default) == IF x.is_none \/ x.v = 0 THEN default ELSE x.v

(***************************************************************************)
(* materials_loader_ice.py                                                 *)
(***************************************************************************)
MaterialEmissionFactor(material, value, unit, source, notes) ==
    [material |-> material, value |-> value, unit |-> unit,
     source |-> source, notes |-> notes]

\* value in 1e-3 kgCO2e/kg; 0 marks a factor the user has not populated yet
SIMPLIFIED_PV_MATERIAL_FACTORS ==
    [aluminium |-> MaterialEmissionFactor(
         "Aluminium, General worldwide (PV module frames / rails)", 13100,
         "kgCO2e/kg", "ICE Database v4.1 (mean of aluminium profiles)",
         "Generic primary aluminium"),
     steel |-> MaterialEmissionFactor(
         "Steel (PV mounting structures)", 1640,
         "kgCO2e/kg", "ICE Database v4.1 (mean structural steel)",
         "Generic hot-rolled engineering steel"),
     concrete |-> MaterialEmissionFactor(
         "Concrete 32/40 MPa (PV foundations / ballast)", 134,
         "kgCO2e/kg", "ICE Database v4.1 (mean ready-mix concrete)",
         "Highly mix-dependent"),
     glass |-> MaterialEmissionFactor(
         "Glass (PV module frontsheet)", 0,
         "kgCO2e/kg", "ICE Database v4.1 (mean flat glass)",
         "Flat glass typical of crystalline silicon PV modules."),
     silicon_pv |-> MaterialEmissionFactor(
         "Silicon (PV cells)", 0,
         "kgCO2e/kg", "ICE Database v4.1 / literature (mono-Si PV cells)",
         "Very energy-intensive material"),
     copper |-> MaterialEmissionFactor(
         "Copper (PV cabling and electrical components)", 0,
         "kgCO2e/kg", "ICE Database v4.1 (mean copper)",
         "Often a small contributor but included for completeness.")]

\* str.lower() on the material keys the model passes in
MaterialKeyLower(k) ==
    CASE k = "Steel" -> "steel"
      [] k = "GLASS" -> "glass"
      [] OTHER -> k

\* the slip `if override_value:`, which lets a zero override fall through
OverrideGiven_Truthy(override_value) ==
    ~override_value.is_none /\ override_value.v # 0

\* the `if override_value is not None` test shared by the three resolvers
OverrideGiven(override_value) == ~override_value.is_none

get_material_factor(material_key0, override_value, override_unit, override_source) ==
    LET material_key == MaterialKeyLower(material_key0) IN
    IF OverrideGiven(override_value) THEN
        Return(MaterialEmissionFactor(
            material_key, override_value.v,
            OrStr(override_unit, "kgCO2e/kg"),
            OrStr(override_source, "User override"),
            "User-supplied value overrides simplified ICE reference"))
    ELSE IF material_key \notin DOMAIN SIMPLIFIED_PV_MATERIAL_FACTORS THEN
        Raise("KeyError", <<"Material", material_key,
                            "not defined in simplified PV material list.">>)
    ELSE IF SIMPLIFIED_PV_MATERIAL_FACTORS[material_key].value = 0 THEN
        Raise("ValueError", <<"Material", material_key,
                              "has not yet been populated with a value.">>)
    ELSE Return(SIMPLIFIED_PV_MATERIAL_FACTORS[material_key])

(***************************************************************************)
(* transport_emissions_factors.py                                          *)
(***************************************************************************)
TransportEmissionFactor(mode, value, unit, source, notes) ==
    [mode |-> mode, value |-> value, unit |-> unit,
     source |-> source, notes |-> notes]

DESNZ == "UK Government GHG Conversion Factors 2024 (DESNZ)"

\* value in 1e-5 kgCO2e per tonne-km
TRANSPORT_EMISSION_FACTORS ==
    [truck_hgv |-> TransportEmissionFactor(
         "Heavy Goods Vehicle (HGV) - Average", 11072, "kgCO2e/tkm", DESNZ,
         "Average laden HGV (all diesel)."),
     truck_rigid |-> TransportEmissionFactor(
         "Rigid HGV (average)", 26587, "kgCO2e/tkm", DESNZ,
         "Rigid trucks, average weight class."),
     truck_articulated |-> TransportEmissionFactor(
         "Articulated HGV (average)", 6294, "kgCO2e/tkm", DESNZ,
         "Articulated trucks, more efficient for long-haul."),
     ship_container |-> TransportEmissionFactor(
         "Container ship", 631, "kgCO2e/tkm", DESNZ,
         "Large container ship. Very efficient per tkm."),
     ship_bulk |-> TransportEmissionFactor(
         "Bulk carrier", 494, "kgCO2e/tkm", DESNZ,
         "Bulk cargo ships (e.g., steel, materials)."),
     rail_freight |-> TransportEmissionFactor(
         "Rail freight", 2678, "kgCO2e/tkm", DESNZ,
         "UK rail freight average."),
     air_freight |-> TransportEmissionFactor(
         "Air freight", 113000, "kgCO2e/tkm", DESNZ,
         "Very high emissions. Avoid for bulk materials.")]

\* mode.lower().replace(" ", "_") on the mode strings the model passes in
ModeKey(mode) ==
    CASE mode = "Truck HGV" -> "truck_hgv"
      [] mode = "Ship Container" -> "ship_container"
      [] mode = "Cargo Bike" -> "cargo_bike"
      [] OTHER -> mode

get_transport_factor(mode, override_value, override_source) ==
    IF OverrideGiven(override_value) THEN
        Return(TransportEmissionFactor(
            mode, override_value.v, "kgCO2e/tkm",
            OrStr(override_source, "User override"),
            "User-supplied transport emission factor"))
    ELSE IF ModeKey(mode) \notin DOMAIN TRANSPORT_EMISSION_FACTORS THEN
        Raise("KeyError", <<"Transport mode", mode, "not found.">>)
    ELSE Return(TRANSPORT_EMISSION_FACTORS[ModeKey(mode)])

(***************************************************************************)
(* emissions_factors.py                                                    *)
(***************************************************************************)
EmissionFactor(value, unit, source, year, region, notes) ==
    [value |-> value, unit |-> unit, source |-> source,
     year |-> year, region |-> region, notes |-> notes]

max_retries == 3

RequiredColumns == {"country", "iso_code", "year", "carbon_intensity_elec"}

OwidRow(country, iso_code, year, carbon_intensity_elec) ==
    [country |-> country, iso_code |-> iso_code, year |-> year,
     carbon_intensity_elec |-> carbon_intensity_elec]

\* What requests.get(_OWID_ENERGY_CSV) can answer: a network failure, the
\* CSV as published, the CSV after an upstream refresh, or a CSV whose
\* carbon-intensity column was renamed upstream.  carbon_intensity_elec is
\* in gCO2/kWh, None where the CSV cell is empty (NaN).
NetworkError == [status |-> "error", columns |-> {}, rows |-> <<>>]

OwidCsvV1 ==
    [status |-> "ok",
     columns |-> RequiredColumns \cup {"population"},
     rows |-> << OwidRow("United Kingdom", "GBR", 2022, Some(200)),
                 OwidRow("United Kingdom", "GBR", 2023, None),
                 OwidRow("France", "FRA", 2023, Some(56)) >>]

OwidCsvV2 ==
    [status |-> "ok",
     columns |-> RequiredColumns \cup {"population"},
     rows |-> << OwidRow("United Kingdom", "GBR", 2022, Some(200)),
                 OwidRow("United Kingdom", "GBR", 2023, Some(210)),
                 OwidRow("France", "FRA", 2023, Some(56)) >>]

OwidCsvRenamed ==
    [status |-> "ok",
     columns |-> {"country", "iso_code", "year", "co2_intensity"},
     rows |-> <<>>]

Responses == {NetworkError, OwidCsvV1, OwidCsvV2, OwidCsvRenamed}

\* _owid_cache = None
NoCache == [is_none |-> TRUE, rows |-> <<>>]

\* lines 100-107: keep the required columns, drop the rows without a carbon
\* intensity, add kgco2_per_kwh = carbon_intensity_elec / 1000.0.  The new
\* column is held in 1e-3 kg/kWh, where it is the same number as the gCO2/kWh.
ProcessOwid(resp) ==
    LET kept == SelectSeq(resp.rows,
                          LAMBDA r : ~r.carbon_intensity_elec.is_none)
    IN  [is_none |-> FALSE,
         rows |-> [i \in 1..Len(kept) |->
                     [country |-> kept[i].country,
                      iso_code |-> kept[i].iso_code,
                      year |-> kept[i].year,
                      carbon_intensity_elec |-> kept[i].carbon_intensity_elec.v,
                      kgco2_per_kwh |-> kept[i].carbon_intensity_elec.v]]]

NoExc == Return(<<>>)

\* the slip of assigning _owid_cache = df right after read_csv, before the
\* column check: a table without the required columns stays in the cache
LoadAttempt_CacheBeforeCheck(resp, att) ==
    IF resp.status = "error" THEN
        IF att < max_retries - 1
        THEN [next |-> "retry", wait |-> 2 ^ att, cache |-> NoCache, exc |-> NoExc]
        ELSE [next |-> "raise", wait |-> 0, cache |-> NoCache,
              exc |-> Raise("ValueError",
                            <<"Failed to download OWID data after", max_retries,
                              "attempts.">>)]
    ELSE IF RequiredColumns \ resp.columns # {} THEN
        [next |-> "raise", wait |-> 0,
         cache |-> [is_none |-> FALSE, rows |-> resp.rows],
         exc |-> Raise("KeyError", <<"Missing expected OWID columns">>)]
    ELSE [next |-> "return", wait |-> 0, cache |-> ProcessOwid(resp),
          exc |-> NoExc]

\* the slip of an off-by-one exit test: the last failure sleeps as well
LoadAttempt_AlwaysRetry(resp, att) ==
    IF resp.status = "error" THEN
        [next |-> "retry", wait |-> 2 ^ att, cache |-> NoCache, exc |-> NoExc]
    ELSE IF RequiredColumns \ resp.columns # {} THEN
        [next |-> "raise", wait |-> 0, cache |-> NoCache,
         exc |-> Raise("KeyError", <<"Missing expected OWID columns">>)]
    ELSE [next |-> "return", wait |-> 0, cache |-> ProcessOwid(resp),
          exc |-> NoExc]

\* One iteration of `for attempt in range(max_retries)` given the answer of
\* the remote: retry after a sleep, raise, or populate the cache and return.
LoadAttempt(resp, att) ==
    IF resp.status = "error" THEN
        IF att < max_retries - 1
        THEN [next |-> "retry", wait |-> 2 ^ att, cache |-> NoCache, exc |-> NoExc]
        ELSE [next |-> "raise", wait |-> 0, cache |-> NoCache,
              exc |-> Raise("ValueError",
                            <<"Failed to download OWID data after", max_retries,
                              "attempts.">>)]
    ELSE IF RequiredColumns \ resp.columns # {} THEN
        [next |-> "raise", wait |-> 0, cache |-> NoCache,
         exc |-> Raise("KeyError", <<"Missing expected OWID columns">>)]
    ELSE [next |-> "return", wait |-> 0, cache |-> ProcessOwid(resp),
          exc |-> NoExc]

\* the retry loop run to its end by one caller; responses[i] answers the
\* i-th download
RECURSIVE LoadLoop(_, _)
LoadLoop(responses, att) ==
    LET step == LoadAttempt(responses[att + 1], att) IN
    IF step.next = "retry" THEN
        LET rest == LoadLoop(responses, att + 1) IN
        [rest EXCEPT !.downloads = @ + 1, !.slept = <<step.wait>> \o @]
    ELSE [cache |-> step.cache, exc |-> step.exc, downloads |-> 1, slept |-> <<>>]

_load_owid_data(cache, responses) ==
    IF cache.is_none THEN LoadLoop(responses, 0)
    ELSE [cache |-> cache, exc |-> NoExc, downloads |-> 0, slept |-> <<>>]

\* lines 162-170
OverrideFactor(country, year, override_value, override_source) ==
    EmissionFactor(override_value.v, "kgCO2e/kWh",
                   OrStr(override_source, "User override"),
                   year, country, "User-supplied value overrides database")

\* the slip of matching the country alone
OwidMask_AnyYear(row, country, year) ==
    row.country = country \/ row.iso_code = country

\* lines 177-180
OwidMask(row, country, year) ==
    (row.country = country \/ row.iso_code = country) /\ row.year = year

\* lines 177-199: the lookup in the loaded table
LookupGrid(df, country, year) ==
    LET subset == SelectSeq(df.rows, LAMBDA r : OwidMask(r, country, year)) IN
    IF subset = <<>> THEN
        Raise("ValueError", <<"No electricity emission factor found for",
                              country, "in", year>>)
    ELSE Return(EmissionFactor(
             subset[1].kgco2_per_kwh, "kgCO2e/kWh",
             "Our World in Data - electricity carbon intensity",
             year, country, "Annual average grid electricity carbon intensity"))

\* the slip of loading the table before looking at the override
GridNeedsLoad_Always(override_value) == TRUE

\* does the call reach `df = _load_owid_data()`?
GridNeedsLoad(override_value) == ~OverrideGiven(override_value)

\* get_grid_electricity_factor run to its end by one caller
get_grid_electricity_factor(country, year, override_value, override_source, cache, responses) ==
    IF ~GridNeedsLoad(override_value) THEN
        [result |-> Return(OverrideFactor(country, year, override_value,
                                          override_source)),
         cache |-> cache, downloads |-> 0, slept |-> <<>>]
    ELSE
        LET load == _load_owid_data(cache, responses) IN
        [result |-> IF load.exc.raised # "" THEN load.exc
                    ELSE LookupGrid(load.cache, country, year),
         cache |-> load.cache, downloads |-> load.downloads,
         slept |-> load.slept]

(***************************************************************************)
(* main.py: calculate_embodied_carbon                                      *)
(***************************************************************************)
\* round(x, 2) of a kgCO2e amount held in units of 1/scale kg: result in 1e-2 kg
RoundKg(x, scale) == RoundHalfEven(x, scale \div 100)

\* the slip of a wrong unit divisor: round(x / 100.0, 3)
RoundTonnes_Per100(x, scale) == RoundHalfEven(x * 10, scale)

\* round(x / 1000.0, 3) of the same amount: result in 1e-3 tonne
RoundTonnes(x, scale) == RoundHalfEven(x, scale)

\* insertion order of material_map (lines 112-119)
MaterialOrder ==
    <<"aluminium", "steel", "concrete", "glass", "silicon_pv", "copper">>

\* lines 128-134: the success line of one material; emissions_kg in 1e-3 kg
MaterialLine(material_key, quantity_kg, factor, emissions_kg) ==
    [material |-> material_key, kind |-> "line", quantity_kg |-> quantity_kg,
     factor_kgCO2e_per_kg |-> factor.value,
     emissions_kgCO2e |-> RoundKg(emissions_kg, 1000),
     emissions_tonnesCO2e |-> RoundTonnes(emissions_kg, 1000),
     source |-> factor.source, error |-> <<>>]

\* lines 136-139: the error entry of one material
MaterialError(material_key, quantity_kg, exc) ==
    [material |-> material_key, kind |-> "error", quantity_kg |-> quantity_kg,
     factor_kgCO2e_per_kg |-> 0, emissions_kgCO2e |-> 0,
     emissions_tonnesCO2e |-> 0, source |-> "", error |-> exc.msg]

\* the slip `total_kg = emissions_kg`
EmbodiedAccumulate_Assign(total_kg, emissions_kg) == emissions_kg

\* line 126: total_kg += emissions_kg, both in 1e-3 kg
EmbodiedAccumulate(total_kg, emissions_kg) == total_kg + emissions_kg

\* the slip of testing `quantity_kg >= 0`, which lets a zero mass through
HasQuantity_NonNegative(quantity_kg) == quantity_kg >= 0

\* line 122: if quantity_kg > 0
HasQuantity(quantity_kg) == quantity_kg > 0

\* the loop body without its try/except: the lookup failure escapes
EmbodiedStep_Uncaught(acc, material_key, quantity_kg) ==
    IF acc.raised # "" \/ ~HasQuantity(quantity_kg) THEN acc
    ELSE
        LET f == get_material_factor(material_key, None, NoneStr, NoneStr) IN
        IF f.raised = "" THEN
            LET emissions_kg == quantity_kg * f.value.value IN
            [acc EXCEPT
                !.total_kg = EmbodiedAccumulate(@, emissions_kg),
                !.breakdown = Append(@, MaterialLine(material_key, quantity_kg,
                                                     f.value, emissions_kg))]
        ELSE [acc EXCEPT !.raised = f.raised]

\* lines 122-139: the loop body for one material; total_kg in 1e-3 kg
EmbodiedStep(acc, material_key, quantity_kg) ==
    IF acc.raised # "" \/ ~HasQuantity(quantity_kg) THEN acc
    ELSE
        LET f == get_material_factor(material_key, None, NoneStr, NoneStr) IN
        IF f.raised = "" THEN
            LET emissions_kg == quantity_kg * f.value.value IN
            [acc EXCEPT
                !.total_kg = EmbodiedAccumulate(@, emissions_kg),
                !.breakdown = Append(@, MaterialLine(material_key, quantity_kg,
                                                     f.value, emissions_kg))]
        ELSE IF f.raised \in {"KeyError", "ValueError"} THEN
            [acc EXCEPT
                !.breakdown = Append(@, MaterialError(material_key,
                                                      quantity_kg, f))]
        ELSE [acc EXCEPT !.raised = f.raised]

\* lines 121-139: the loop over the materials, taken in the given order
RECURSIVE EmbodiedLoop(_, _, _, _)
EmbodiedLoop(acc, order, i, quantities) ==
    IF i > Len(order) THEN acc
    ELSE EmbodiedLoop(EmbodiedStep(acc, order[i], quantities[order[i]]),
                      order, i + 1, quantities)

EmbodiedOver(order, quantities) ==
    LET acc == EmbodiedLoop([total_kg |-> 0, breakdown |-> <<>>, raised |-> ""],
                            order, 1, quantities)
    IN  IF acc.raised # "" THEN Raise(acc.raised, <<>>)
        ELSE Return([total_kgCO2e |-> RoundKg(acc.total_kg, 1000),
                     total_tonnesCO2e |-> RoundTonnes(acc.total_kg, 1000),
                     breakdown |-> acc.breakdown,
                     note |-> ""])

\* materials: None, or the MaterialQuantities as a function from the
\* material key to its <key>_kg field
calculate_embodied_carbon(materials) ==
    IF materials.is_none THEN
        Return([total_kgCO2e |-> 0, total_tonnesCO2e |-> 0,
                breakdown |-> <<>>, note |-> "No materials provided"])
    ELSE EmbodiedOver(MaterialOrder, materials.v)

(***************************************************************************)
(* transport_emissions_factors.py: calculate_transport_emissions           *)
(***************************************************************************)
TransportLeg(mode, distance_km, mass_tonnes) ==
    [mode |-> mode, distance_km |-> distance_km, mass_tonnes |-> mass_tonnes]

\* line 194: custom_factors.get(leg.mode) if custom_factors else None;
\* custom_factors is None or a dict, held as a function from modes to factors
CustomFactor(custom_factors, mode) ==
    IF custom_factors.is_none THEN None
    ELSE IF mode \in DOMAIN custom_factors.v THEN Some(custom_factors.v[mode])
    ELSE None

\* the slip of numbering the legs as enumerate() counts them, from 0
LegNumber_ZeroBased(i) == i

\* lines 203 and 217: "leg": i + 1
LegNumber(i) == i + 1

\* the slip of adding where the tonne-kilometres multiply
TonneKm_Added(leg) == leg.mass_tonnes + leg.distance_km

\* line 211
TonneKm(leg) == leg.mass_tonnes * leg.distance_km

\* the slip of a loop body without its try/except: the KeyError leaves the call
TransportStep_Uncaught(acc, i, leg, custom_factors) ==
    IF acc.raised # "" THEN acc
    ELSE
        LET f == get_transport_factor(leg.mode,
                                      CustomFactor(custom_factors, leg.mode),
                                      NoneStr)
        IN
        IF f.raised # "" THEN [acc EXCEPT !.raised = f.raised]
        ELSE
            LET tonne_km == TonneKm(leg)
                emissions_kg == tonne_km * f.value.value
            IN  [acc EXCEPT
                    !.total_kgco2e = @ + emissions_kg,
                    !.breakdown = Append(@,
                        [leg |-> LegNumber(i), kind |-> "line",
                         mode |-> f.value.mode,
                         mass_tonnes |-> leg.mass_tonnes,
                         distance_km |-> leg.distance_km,
                         tonne_km |-> RoundHalfEven(tonne_km * 100, 1),
                         factor_kgCO2e_per_tkm |-> f.value.value,
                         emissions_kgCO2e |-> RoundKg(emissions_kg, 100000),
                         source |-> f.value.source, error |-> <<>>])]

\* lines 192-225: the loop body for legs[i + 1], i counted from 0 as by
\* enumerate(); total_kgco2e in 1e-5 kg, distance in km, mass in tonnes
TransportStep(acc, i, leg, custom_factors) ==
    IF acc.raised # "" THEN acc
    ELSE
        LET f == get_transport_factor(leg.mode,
                                      CustomFactor(custom_factors, leg.mode),
                                      NoneStr)
        IN
        IF f.raised = "KeyError" THEN
            [acc EXCEPT !.breakdown = Append(@,
                [leg |-> LegNumber(i), kind |-> "error", mode |-> leg.mode,
                 mass_tonnes |-> 0, distance_km |-> 0, tonne_km |-> 0,
                 factor_kgCO2e_per_tkm |-> 0, emissions_kgCO2e |-> 0,
                 source |-> "", error |-> f.msg])]
        ELSE IF f.raised # "" THEN [acc EXCEPT !.raised = f.raised]
        ELSE
            LET tonne_km == TonneKm(leg)
                emissions_kg == tonne_km * f.value.value
            IN  [acc EXCEPT
                    !.total_kgco2e = @ + emissions_kg,
                    !.breakdown = Append(@,
                        [leg |-> LegNumber(i), kind |-> "line",
                         mode |-> f.value.mode,
                         mass_tonnes |-> leg.mass_tonnes,
                         distance_km |-> leg.distance_km,
                         tonne_km |-> RoundHalfEven(tonne_km * 100, 1),
                         factor_kgCO2e_per_tkm |-> f.value.value,
                         emissions_kgCO2e |-> RoundKg(emissions_kg, 100000),
                         source |-> f.value.source, error |-> <<>>])]

RECURSIVE TransportLoop(_, _, _, _)
TransportLoop(acc, i, legs, custom_factors) ==
    IF i >= Len(legs) THEN acc
    ELSE TransportLoop(TransportStep(acc, i, legs[i + 1], custom_factors),
                       i + 1, legs, custom_factors)

calculate_transport_emissions(legs, custom_factors) ==
    LET acc == TransportLoop([total_kgco2e |-> 0, breakdown |-> <<>>,
                              raised |-> ""], 0, legs, custom_factors)
    IN  IF acc.raised # "" THEN Raise(acc.raised, <<>>)
        ELSE Return([total_kgCO2e |-> RoundKg(acc.total_kgco2e, 100000),
                     total_tonnesCO2e |-> RoundTonnes(acc.total_kgco2e, 100000),
                     breakdown |-> acc.breakdown,
                     note |-> ""])

(***************************************************************************)
(* construction_emissions_factors.py                                       *)
(***************************************************************************)
\* value in 1e-2 kgCO2e/L for the fuels and in 1e-3 kgCO2e/kWh for the grid
FUEL_EMISSION_FACTORS ==
    [diesel |-> [value |-> 269, unit |-> "kgCO2e/L",
                 source |-> "UK Government GHG Conversion Factors 2024"],
     petrol |-> [value |-> 232, unit |-> "kgCO2e/L",
                 source |-> "UK Government GHG Conversion Factors 2024"],
     grid_electricity |-> [value |-> 234, unit |-> "kgCO2e/kWh",
                 source |-> "UK Government GHG Conversion Factors 2024"]]

\* consumption_l_per_hour in 0.1 L/h
EQUIPMENT_FUEL_RATES ==
    [mobile_crane_medium |->
         [fuel_type |-> "diesel", consumption_l_per_hour |-> 150,
          description |-> "Medium mobile crane (20-50 tonne capacity)",
          source |-> "Construction Equipment Guide - typical medium crane consumption"],
     mobile_crane_large |->
         [fuel_type |-> "diesel", consumption_l_per_hour |-> 250,
          description |-> "Large mobile crane (50+ tonne capacity)",
          source |-> "Construction Equipment Guide - typical large crane consumption"],
     excavator_medium |->
         [fuel_type |-> "diesel", consumption_l_per_hour |-> 120,
          description |-> "Medium excavator (10-20 tonne)",
          source |-> "Construction Equipment Guide - typical excavator consumption"],
     forklift_diesel |->
         [fuel_type |-> "diesel", consumption_l_per_hour |-> 35,
          description |-> "Diesel forklift (2-5 tonne capacity)",
          source |-> "Construction Equipment Guide - typical forklift consumption"],
     telehandler |->
         [fuel_type |-> "diesel", consumption_l_per_hour |-> 80,
          description |-> "Telescopic handler",
          source |-> "Construction Equipment Guide - typical telehandler consumption"],
     generator_small |->
         [fuel_type |-> "diesel", consumption_l_per_hour |-> 25,
          description |-> "Small diesel generator (20-50 kVA)",
          source |-> "Generator manufacturer specifications - typical small unit"],
     generator_medium |->
         [fuel_type |-> "diesel", consumption_l_per_hour |-> 50,
          description |-> "Medium diesel generator (50-150 kVA)",
          source |-> "Generator manufacturer specifications - typical medium unit"]]

\* value in 1e-5 kgCO2e/km
WORKER_CAR_EMISSION_FACTOR ==
    [value |-> 17058, unit |-> "kgCO2e/km",
     source |-> "UK Government GHG Conversion Factors 2024"]

\* embodied_carbon_kgCO2e in 1e-2 kg, percentage in 0.1 %, so that
\* embodied * (percentage / 100.0) is their product in 1e-5 kg
calculate_construction_simple(embodied_carbon_kgCO2e, percentage) ==
    LET construction_emissions == embodied_carbon_kgCO2e * percentage IN
    Return([method |-> "simple_percentage",
            total_kgCO2e |-> RoundKg(construction_emissions, 100000),
            total_tonnesCO2e |-> RoundTonnes(construction_emissions, 100000),
            breakdown |-> <<>>,
            note |-> "",
            assumptions |->
                [embodied_carbon_kgCO2e |-> embodied_carbon_kgCO2e,
                 percentage_used |-> percentage]])

EquipmentUsage(equipment_type, hours) ==
    [equipment_type |-> equipment_type, hours |-> hours]

ConstructionActivity(activity, emissions_kgCO2e, description, source) ==
    [activity |-> activity, emissions_kgCO2e |-> emissions_kgCO2e,
     description |-> description, source |-> source]

\* Python truthiness of an Optional number
Truthy(x) == ~x.is_none /\ x.v # 0

\* lines 234-250: the equipment loop; hours in h, emissions in 1e-5 kg
RECURSIVE EquipmentLoop(_, _, _)
EquipmentLoop(acc, i, equipment_usage) ==
    IF i > Len(equipment_usage) THEN acc
    ELSE
        LET usage == equipment_usage[i] IN
        IF usage.equipment_type \notin DOMAIN EQUIPMENT_FUEL_RATES
        THEN EquipmentLoop(acc, i + 1, equipment_usage)
        ELSE
            LET equip == EQUIPMENT_FUEL_RATES[usage.equipment_type]
                fuel_consumed_l == equip.consumption_l_per_hour * usage.hours
                fuel_factor == FUEL_EMISSION_FACTORS[equip.fuel_type].value
                emissions == fuel_consumed_l * fuel_factor * 100
            IN  EquipmentLoop(
                    [total_emissions |-> acc.total_emissions + emissions,
                     activities |-> Append(acc.activities,
                         ConstructionActivity(
                             <<equip.description, usage.hours, "h">>,
                             RoundKg(emissions, 100000),
                             <<fuel_consumed_l, "L", equip.fuel_type, "consumed">>,
                             <<FUEL_EMISSION_FACTORS[equip.fuel_type].source,
                               "(fuel) +", equip.source, "(consumption rate)">>))],
                    i + 1, equipment_usage)

\* the slip of gating the worker transport on any of its three inputs
WorkerTransport_AnyGiven(acc, worker_transport_km, num_workers, num_days) ==
    IF Truthy(worker_transport_km) \/ Truthy(num_workers) \/ Truthy(num_days)
    THEN
        LET car_factor == WORKER_CAR_EMISSION_FACTOR.value
            total_worker_km == worker_transport_km.v * num_workers.v * num_days.v
            worker_emissions == total_worker_km * car_factor
        IN  [total_emissions |-> acc.total_emissions + worker_emissions,
             activities |-> Append(acc.activities,
                 ConstructionActivity(
                     <<"Worker transport", num_workers.v, "workers",
                       num_days.v, "days">>,
                     RoundKg(worker_emissions, 100000),
                     <<total_worker_km, "km total travel @", car_factor>>,
                     <<WORKER_CAR_EMISSION_FACTOR.source>>))]
    ELSE acc

\* lines 253-265: worker transport, km * workers * days at the car factor
WorkerTransport(acc, worker_transport_km, num_workers, num_days) ==
    IF Truthy(worker_transport_km) /\ Truthy(num_workers) /\ Truthy(num_days)
    THEN
        LET car_factor == WORKER_CAR_EMISSION_FACTOR.value
            total_worker_km == worker_transport_km.v * num_workers.v * num_days.v
            worker_emissions == total_worker_km * car_factor
        IN  [total_emissions |-> acc.total_emissions + worker_emissions,
             activities |-> Append(acc.activities,
                 ConstructionActivity(
                     <<"Worker transport", num_workers.v, "workers",
                       num_days.v, "days">>,
                     RoundKg(worker_emissions, 100000),
                     <<total_worker_km, "km total travel @", car_factor>>,
                     <<WORKER_CAR_EMISSION_FACTOR.source>>))]
    ELSE acc

\* line 269: grid_carbon_factor or FUEL_EMISSION_FACTORS["grid_electricity"]["value"]
GridFactorUsed(grid_carbon_factor) ==
    OrNum(grid_carbon_factor, FUEL_EMISSION_FACTORS["grid_electricity"].value)

\* lines 268-279: grid electricity on site; kWh times a factor in 1e-3 kg/kWh
GridElectricity(acc, grid_electricity_kwh, grid_carbon_factor) ==
    IF Truthy(grid_electricity_kwh) THEN
        LET grid_factor == GridFactorUsed(grid_carbon_factor)
            elec_emissions == grid_electricity_kwh.v * grid_factor * 100
        IN  [total_emissions |-> acc.total_emissions + elec_emissions,
             activities |-> Append(acc.activities,
                 ConstructionActivity(
                     <<"Grid electricity on site">>,
                     RoundKg(elec_emissions, 100000),
                     <<grid_electricity_kwh.v, "kWh @", grid_factor>>,
                     <<FUEL_EMISSION_FACTORS["grid_electricity"].source>>))]
    ELSE acc

calculate_construction_detailed(equipment_usage, worker_transport_km, num_workers, num_days, grid_electricity_kwh, grid_carbon_factor) ==
    LET a1 == EquipmentLoop([total_emissions |-> 0, activities |-> <<>>],
                            1, equipment_usage)
        a2 == WorkerTransport(a1, worker_transport_km, num_workers, num_days)
        a3 == GridElectricity(a2, grid_electricity_kwh, grid_carbon_factor)
    IN  Return([method |-> "detailed_itemized",
                total_kgCO2e |-> RoundKg(a3.total_emissions, 100000),
                total_tonnesCO2e |-> RoundTonnes(a3.total_emissions, 100000),
                breakdown |-> a3.activities,
                note |-> "",
                assumptions |-> <<>>])

(***************************************************************************)
(* main.py: calculate_construction_emissions                               *)
(***************************************************************************)
\* dict.get(key, default) on a dict held as a function
DictGet(d, key, default) == IF key \in DOMAIN d THEN d[key] ELSE default

\* lines 164-170: the EquipmentUsage objects built from the request's dicts
EquipmentFromDicts(equipment_usage) ==
    IF equipment_usage.is_none THEN <<>>
    ELSE [i \in 1..Len(equipment_usage.v) |->
             EquipmentUsage(DictGet(equipment_usage.v[i], "equipment_type", ""),
                            DictGet(equipment_usage.v[i], "hours", 0))]

\* the slip of a final `else` that treats every other method as "simple"
calculate_construction_emissions_ElseSimple(construction_input, embodied_carbon_kgCO2e, grid_carbon_factor) ==
    IF construction_input.is_none THEN
        calculate_construction_simple(embodied_carbon_kgCO2e, 50)
    ELSE IF construction_input.v.method = "detailed" THEN
        calculate_construction_detailed(
            EquipmentFromDicts(construction_input.v.equipment_usage),
            construction_input.v.worker_transport_km,
            construction_input.v.num_workers,
            construction_input.v.num_days,
            construction_input.v.grid_electricity_kwh,
            grid_carbon_factor)
    ELSE calculate_construction_simple(
             embodied_carbon_kgCO2e, OrNum(construction_input.v.percentage, 50))

\* construction_input: None or a ConstructionInput; embodied in 1e-2 kg;
\* grid_carbon_factor: Optional, in 1e-3 kg/kWh
calculate_construction_emissions(construction_input, embodied_carbon_kgCO2e, grid_carbon_factor) ==
    IF construction_input.is_none THEN
        calculate_construction_simple(embodied_carbon_kgCO2e, 50)
    ELSE IF construction_input.v.method = "simple" THEN
        calculate_construction_simple(
            embodied_carbon_kgCO2e, OrNum(construction_input.v.percentage, 50))
    ELSE IF construction_input.v.method = "detailed" THEN
        calculate_construction_detailed(
            EquipmentFromDicts(construction_input.v.equipment_usage),
            construction_input.v.worker_transport_km,
            construction_input.v.num_workers,
            construction_input.v.num_days,
            construction_input.v.grid_electricity_kwh,
            grid_carbon_factor)
    ELSE Return([total_kgCO2e |-> 0, total_tonnesCO2e |-> 0,
                 note |-> "Invalid construction method"])

(***************************************************************************)
(* replacement_rate.py                                                     *)
(***************************************************************************)
Max(a, b) == IF a >= b THEN a ELSE b

\* pow * degradation_factor for a power in 1e-9 and a factor in 1e-3,
\* rounded to 1e-9 and computed in two parts to stay within 32 bits
TimesFactor(pow, degradation_factor) ==
    (pow \div 1000) * degradation_factor
    + RoundHalfEven((pow % 1000) * degradation_factor, 1000)

\* the slip of a linear decline: 1 - year_index * degradation_rate
DegradationPower_Linear(degradation_factor, year_index) ==
    1000000000 - year_index * (1000 - degradation_factor) * 1000000

\* line 36: degradation_factor ** year_index, the factor in 1e-3 and the
\* power in 1e-9
RECURSIVE DegradationPower(_, _)
DegradationPower(degradation_factor, year_index) ==
    IF year_index = 0 THEN 1000000000
    ELSE TimesFactor(DegradationPower(degradation_factor, year_index - 1),
                     degradation_factor)

\* line 36: annual_generation_kwh * (degradation_factor ** year_index), in
\* 1e-4 kWh; annual_generation_kwh in kWh
YearlyGeneration(annual_generation_kwh, pow) ==
    annual_generation_kwh * (pow \div 100000)
    + RoundHalfEven(annual_generation_kwh * (pow % 100000), 100000)

\* the slip of counting the years from 1
RECURSIVE LifetimeGeneration_FromYearOne(_, _, _)
LifetimeGeneration_FromYearOne(annual_generation_kwh, degradation_factor, lifetime_years) ==
    IF lifetime_years = 0 THEN 0
    ELSE LifetimeGeneration_FromYearOne(annual_generation_kwh,
                                        degradation_factor, lifetime_years - 1)
         + YearlyGeneration(annual_generation_kwh,
                            DegradationPower(degradation_factor, lifetime_years))

\* lines 34-37: the sum of the yearly generations over year_index in
\* range(lifetime_years), in 1e-4 kWh
RECURSIVE LifetimeGeneration(_, _, _)
LifetimeGeneration(annual_generation_kwh, degradation_factor, lifetime_years) ==
    IF lifetime_years = 0 THEN 0
    ELSE LifetimeGeneration(annual_generation_kwh, degradation_factor,
                            lifetime_years - 1)
         + YearlyGeneration(annual_generation_kwh,
                            DegradationPower(degradation_factor,
                                             lifetime_years - 1))

\* the slip of counting the inverter installed at commissioning
InverterReplacements_Commissioning(lifetime_years, inverter_lifetime) ==
    IF inverter_lifetime > 0
    THEN lifetime_years \div inverter_lifetime
    ELSE 0

\* lines 41-45
InverterReplacements(lifetime_years, inverter_lifetime) ==
    IF inverter_lifetime > 0
    THEN (lifetime_years - 1) \div inverter_lifetime
    ELSE 0

\* replacements_input: None or a ReplacementInput with the degradation rate
\* in 0.1 %/year, the inverter factor in 0.1 kgCO2e/kWp and the additional
\* percentage in 0.1 %; capacity_kwp in 1e-2 kWp; annual_generation_kwh in
\* kWh; embodied_carbon_kgCO2e in 1e-2 kg; carbon_factor in 1e-3 kg/kWh
calculate_replacement_emissions(replacements_input, capacity_kwp, annual_generation_kwh, embodied_carbon_kgCO2e, carbon_factor) ==
    IF replacements_input.is_none THEN
        Return([total_kgCO2e |-> 0, total_tonnesCO2e |-> 0,
                note |-> "No replacement inputs provided"])
    ELSE
        LET in == replacements_input.v
            lifetime_years == Max(1, in.system_lifetime_years)
            \* degradation_rate = max(0.0, pct) / 100.0, in 1e-3
            degradation_rate == Max(0, in.module_degradation_rate_pct_per_year)
            degradation_factor == 1000 - degradation_rate
            \* in 1e-4 kWh
            lifetime_generation_kwh ==
                LifetimeGeneration(annual_generation_kwh, degradation_factor,
                                   lifetime_years)
            \* in 1e-3 kg: generation in 1e-4 kWh times factor in 1e-3 kg/kWh
            lifetime_avoided_kg ==
                (lifetime_generation_kwh \div 10000) * carbon_factor
                + RoundHalfEven((lifetime_generation_kwh % 10000) * carbon_factor,
                                10000)
            inverter_lifetime == OrNum(in.inverter_lifetime_years, 0)
            inverter_replacements ==
                InverterReplacements(lifetime_years, inverter_lifetime)
            inverter_factor == OrNum(in.inverter_embodied_kgCO2e_per_kwp, 0)
            \* in 1e-3 kg
            inverter_emissions_kg ==
                inverter_replacements * inverter_factor * capacity_kwp
            additional_percent ==
                OrNum(in.additional_replacement_percent_of_embodied, 0)
            \* in 1e-5 kg
            additional_emissions_kg == embodied_carbon_kgCO2e * additional_percent
            \* in 1e-5 kg
            total_replacement_kg ==
                inverter_emissions_kg * 100 + additional_emissions_kg
        IN  Return(
            [system_lifetime_years |-> lifetime_years,
             module_degradation_rate_pct_per_year |->
                 in.module_degradation_rate_pct_per_year,
             \* round(x, 1): in 0.1 kWh
             lifetime_generation_kwh |->
                 RoundHalfEven(lifetime_generation_kwh, 1000),
             lifetime_avoided_kgCO2e |-> RoundHalfEven(lifetime_avoided_kg, 100),
             lifetime_avoided_tonnesCO2e |->
                 RoundTonnes(lifetime_avoided_kg, 1000),
             average_annual_generation_kwh |->
                 RoundHalfEven(lifetime_generation_kwh, 1000 * lifetime_years),
             inverter_lifetime_years |-> inverter_lifetime,
             inverter_replacements |-> inverter_replacements,
             inverter_emissions_kgCO2e |-> RoundKg(inverter_emissions_kg, 1000),
             additional_replacement_percent_of_embodied |-> additional_percent,
             additional_replacement_emissions_kgCO2e |->
                 RoundKg(additional_emissions_kg, 100000),
             total_kgCO2e |-> RoundKg(total_replacement_kg, 100000),
             total_tonnesCO2e |-> RoundTonnes(total_replacement_kg, 100000),
             note |-> ""])

(***************************************************************************)
(* bess_module.py                                                          *)
(***************************************************************************)
\* bess_input: None or a BessInput with capacity_kwh in 0.1 kWh and
\* embodied_kgCO2e_per_kwh in 1e-2 kg/kWh, so that total_kg is in 1e-3 kg
calculate_bess_emissions(bess_input) ==
    IF bess_input.is_none \/ ~bess_input.v.included THEN
        Return([total_kgCO2e |-> 0, total_tonnesCO2e |-> 0,
                note |-> "No BESS included"])
    ELSE
        LET capacity_kwh == Max(0, bess_input.v.capacity_kwh)
            factor == Max(0, bess_input.v.embodied_kgCO2e_per_kwh)
            total_kg == capacity_kwh * factor
        IN  Return([capacity_kwh |-> capacity_kwh,
                    embodied_kgCO2e_per_kwh |-> factor,
                    roundtrip_efficiency |-> bess_input.v.roundtrip_efficiency,
                    total_kgCO2e |-> RoundKg(total_kg, 1000),
                    total_tonnesCO2e |-> RoundTonnes(total_kg, 1000),
                    note |-> ""])

(***************************************************************************)
(* main.py: calculate                                                      *)
(***************************************************************************)
SolarInput(has_coordinates, year, area_m2, module_efficiency, materials, transport, construction, carbon_factor_override, country_code) ==
    [has_coordinates |-> has_coordinates, year |-> year, area_m2 |-> area_m2,
     module_efficiency |-> module_efficiency, materials |-> materials,
     transport |-> transport, construction |-> construction,
     carbon_factor_override |-> carbon_factor_override,
     country_code |-> country_code]

\* lines 83-94 for a request that carries its coordinates or carries no
\* location at all (the postcode service is an external collaborator)
get_coordinates(input) ==
    IF input.has_coordinates THEN Return(<<"lat", "lon">>)
    ELSE Raise("ValueError",
               <<"Must provide either postcode or latitude/longitude.">>)

RECURSIVE SumSeq(_)
SumSeq(q) == IF q = <<>> THEN 0 ELSE Head(q) + SumSeq(Tail(q))

PoaComponents == {"poa_direct", "poa_sky_diffuse", "poa_ground_diffuse"}

\* line 225: data[[...the three components...]].sum(axis=1)
PoaGlobal(data) ==
    [i \in 1..Len(data.index) |->
        data.cols["poa_direct"][i] + data.cols["poa_sky_diffuse"][i]
        + data.cols["poa_ground_diffuse"][i]]

\* line 225: data[name] = values, an assignment into the fetched frame
WithColumn(data, name, values) ==
    [data EXCEPT !.cols = [c \in DOMAIN data.cols \cup {name} |->
                              IF c = name THEN values ELSE data.cols[c]]]

\* the slip of preferring the plane-of-array components to G(h)
PickIrradiance_ComponentsFirst(data) ==
    IF PoaComponents \subseteq DOMAIN data.cols THEN
        Return([irr |-> PoaGlobal(data), irr_label |-> "poa_global",
                data |-> WithColumn(data, "poa_global", PoaGlobal(data))])
    ELSE IF "G(h)" \in DOMAIN data.cols THEN
        Return([irr |-> data.cols["G(h)"], irr_label |-> "G(h)", data |-> data])
    ELSE
        Raise("KeyError", <<"PVGIS output missing expected irradiance columns.">>)

\* lines 218-227: data is the frame returned by get_pvgis_hourly, held as
\* [index |-> the month of each timestep, cols |-> column name -> values]
PickIrradiance(data) ==
    IF "G(h)" \in DOMAIN data.cols THEN
        Return([irr |-> data.cols["G(h)"], irr_label |-> "G(h)", data |-> data])
    ELSE IF ~(PoaComponents \subseteq DOMAIN data.cols) THEN
        Raise("KeyError", <<"PVGIS output missing expected irradiance columns.">>)
    ELSE
        Return([irr |-> PoaGlobal(data), irr_label |-> "poa_global",
                data |-> WithColumn(data, "poa_global", PoaGlobal(data))])

\* lines 232-233: area in m2, irradiance in Wh/m2, efficiency in %, so that
\* area * (irr / 1000.0) * efficiency is their product in 1e-5 kWh
\* the slip of leaving the series unclipped
ClipLower_Absent(x, lower) == x

\* line 233: .clip(lower=0), for one entry of the series
ClipLower(x, lower) == IF x < lower THEN lower ELSE x

PvKwh(area_m2, irr, module_efficiency) ==
    [i \in 1..Len(irr) |-> ClipLower(area_m2 * irr[i] * module_efficiency, 0)]

\* the slip of .last() for .sum(): each month shows its last timestep
MonthlyOutput_Last(pv_kwh, index) ==
    [month \in {index[i] : i \in 1..Len(index)} |->
        LET last == CHOOSE i \in 1..Len(index) :
                        /\ index[i] = month
                        /\ \A j \in 1..Len(index) : index[j] = month => j <= i
        IN  pv_kwh[last]]

\* lines 241-242: pv_kwh.groupby(pv_kwh.index.month).sum()
MonthlyOutput(pv_kwh, index) ==
    [month \in {index[i] : i \in 1..Len(index)} |->
        SumSeq([i \in 1..Len(pv_kwh) |->
                   IF index[i] = month THEN pv_kwh[i] ELSE 0])]

\* lines 252-269
TransportStage(input) ==
    IF ~input.transport.is_none /\ Len(input.transport.v) > 0 THEN
        calculate_transport_emissions(input.transport.v, None)
    ELSE Return([total_kgCO2e |-> 0, total_tonnesCO2e |-> 0,
                 breakdown |-> <<>>, note |-> "No transport legs provided"])

\* the local `data` is not bound yet
NoData == [index |-> <<>>, cols |-> <<>>]

\* lines 205-227: the local `data` when calculate ends, for what
\* get_pvgis_hourly did
DataAfter(fetched) ==
    IF fetched.raised # "" THEN NoData
    ELSE IF PickIrradiance(fetched.value).raised # "" THEN fetched.value
    ELSE PickIrradiance(fetched.value).value.data

\* what calculate() hands back: a report, or the exception that left it
Report(r) == [status |-> "ok", exc |-> NoExc, failed |-> "", report |-> r]

Failure(failed, exc) ==
    [status |-> "raised", exc |-> exc, failed |-> failed, report |-> <<>>]

\* lines 217-322: calculate from the answer of get_pvgis_hourly onwards;
\* factor is the EmissionFactor resolved at lines 194-200, fetched is what
\* get_pvgis_hourly did
CalculateFrom(input, factor, fetched) ==
    IF fetched.raised # "" THEN Failure("get_pvgis_hourly", fetched)
    ELSE
    LET data == fetched.value
        picked == PickIrradiance(data)
    IN
    IF picked.raised # "" THEN Failure("irradiance_columns", picked)
    ELSE
    LET carbon_factor == factor.value
        pv_kwh == PvKwh(input.area_m2, picked.value.irr, input.module_efficiency)
        \* in 1e-2 kWp
        capacity_kwp == input.area_m2 * input.module_efficiency
        \* in 1e-5 kWh
        annual_total_kwh == SumSeq(pv_kwh)
        \* in 1e-8 kg
        avoided_total_kg == annual_total_kwh * carbon_factor
        monthly_output == MonthlyOutput(pv_kwh, data.index)
        embodied_carbon == calculate_embodied_carbon(input.materials)
        transport_emissions == TransportStage(input)
    IN
    IF embodied_carbon.raised # "" THEN
        Failure("calculate_embodied_carbon", embodied_carbon)
    ELSE IF transport_emissions.raised # "" THEN
        Failure("calculate_transport_emissions", transport_emissions)
    ELSE
    LET construction_emissions ==
            calculate_construction_emissions(
                input.construction, embodied_carbon.value.total_kgCO2e,
                Some(carbon_factor))
    IN
    Report(
        [location |-> <<"lat", "lon">>,
         operational |->
             [annual_generation_kwh |-> RoundHalfEven(annual_total_kwh, 10000),
              annual_avoided_kgCO2e |-> RoundHalfEven(avoided_total_kg, 10000000),
              annual_avoided_tonnesCO2e |->
                  RoundHalfEven(avoided_total_kg, 100000000),
              monthly_kwh |-> monthly_output],
         embodied |-> embodied_carbon.value,
         transport |-> transport_emissions.value,
         construction |-> construction_emissions.value,
         annual_kwh |-> RoundHalfEven(annual_total_kwh, 10000),
         annual_avoided_kgCO2e |-> RoundHalfEven(avoided_total_kg, 10000000),
         annual_avoided_tonnesCO2e |-> RoundHalfEven(avoided_total_kg, 100000000),
         equivalent_capacity_kwp |-> RoundHalfEven(capacity_kwp * 10, 1),
         monthly_kwh |-> monthly_output,
         assumptions |->
             [area_m2 |-> input.area_m2,
              module_efficiency |-> input.module_efficiency,
              equivalent_capacity_kwp |-> RoundHalfEven(capacity_kwp * 10, 1),
              carbon_factor_kgCO2e_per_kwh |-> carbon_factor,
              carbon_factor_source |-> factor.source,
              carbon_factor_year |-> factor.year,
              carbon_factor_region |-> factor.region,
              irradiance_column_used |-> picked.value.irr_label]])

(***************************************************************************)
(* The request threads at rest.                                            *)
(***************************************************************************)
Threads == 1..NumThreads

NoRequest == [is_none |-> TRUE]

NoFactor == [is_none |-> TRUE]

NoResponse == [status |-> "none"]

\* get_pvgis_hourly not called yet
NoFetch == [raised |-> "pending", msg |-> <<>>, value |-> <<>>]

ServerIdle ==
    /\ pc = [t \in Threads |-> "idle"]
    /\ req = [t \in Threads |-> NoRequest]
    /\ attempt = [t \in Threads |-> 0]
    /\ wait_time = [t \in Threads |-> 0]
    /\ ef = [t \in Threads |-> NoFactor]
    /\ pvgis = [t \in Threads |-> NoFetch]
    /\ pvgis_data = [t \in Threads |-> NoData]
    /\ response = [t \in Threads |-> NoResponse]

NoCall == [fn |-> "none"]

NoRet == [result |-> NoExc, downloads |-> 0, slept |-> <<>>]

(***************************************************************************)
(* SpecResolve: one caller uses the three factor resolvers, one call       *)
(* after the other, in a process whose OWID cache starts unpopulated.      *)
(***************************************************************************)
Countries == {"GBR", "United Kingdom", "Atlantis"}

Years == {2022, 2023}

OverrideValues == {None} \cup {Some(v) : v \in 0..MaxOverride}

OverrideSources == {NoneStr, [is_none |-> FALSE, v |-> ""],
                    [is_none |-> FALSE, v |-> "Manufacturer EPD"]}

OverrideUnits == {NoneStr, [is_none |-> FALSE, v |-> "kgCO2e/m2"]}

MaterialKeyInputs ==
    DOMAIN SIMPLIFIED_PV_MATERIAL_FACTORS \cup {"Steel", "GLASS", "timber"}

ModeInputs ==
    DOMAIN TRANSPORT_EMISSION_FACTORS \cup {"Truck HGV", "Cargo Bike", "hovercraft"}

\* what the remote answers to the successive downloads of one load: only the
\* answers up to the first one that is not a network failure are consumed
ResponseScenarios ==
    {rs \in [1..max_retries -> Responses] :
        \A i \in 1..max_retries :
            rs[i] # NetworkError =>
                \A j \in (i + 1)..max_retries : rs[j] = NetworkError}

InitResolve ==
    /\ _owid_cache = NoCache
    /\ ServerIdle
    /\ call = NoCall
    /\ ret = NoRet

CallGrid ==
    \E country \in Countries, year \in Years, ov \in OverrideValues,
       osrc \in OverrideSources, responses \in ResponseScenarios :
        LET r == get_grid_electricity_factor(country, year, ov, osrc,
                                             _owid_cache, responses)
        IN  /\ call' = [fn |-> "get_grid_electricity_factor", key |-> country,
                        year |-> year, override_value |-> ov,
                        override_unit |-> NoneStr, override_source |-> osrc,
                        cache_before |-> _owid_cache, responses |-> responses]
            /\ ret' = [result |-> r.result, downloads |-> r.downloads,
                       slept |-> r.slept]
            /\ _owid_cache' = r.cache
            /\ UNCHANGED serverVars

CallMaterial ==
    \E key \in MaterialKeyInputs, ov \in OverrideValues,
       ounit \in OverrideUnits, osrc \in OverrideSources :
        /\ call' = [fn |-> "get_material_factor", key |-> key, year |-> 0,
                    override_value |-> ov, override_unit |-> ounit,
                    override_source |-> osrc,
                    cache_before |-> _owid_cache, responses |-> <<>>]
        /\ ret' = [result |-> get_material_factor(key, ov, ounit, osrc),
                   downloads |-> 0, slept |-> <<>>]
        /\ UNCHANGED <<_owid_cache, serverVars>>

CallTransport ==
    \E mode \in ModeInputs, ov \in OverrideValues, osrc \in OverrideSources :
        /\ call' = [fn |-> "get_transport_factor", key |-> mode, year |-> 0,
                    override_value |-> ov, override_unit |-> NoneStr,
                    override_source |-> osrc,
                    cache_before |-> _owid_cache, responses |-> <<>>]
        /\ ret' = [result |-> get_transport_factor(mode, ov, osrc),
                   downloads |-> 0, slept |-> <<>>]
        /\ UNCHANGED <<_owid_cache, serverVars>>

NextResolve == CallGrid \/ CallMaterial \/ CallTransport

SpecResolve == InitResolve /\ [][NextResolve]_vars

ResolverCalled ==
    call.fn \in {"get_grid_electricity_factor", "get_material_factor",
                 "get_transport_factor"}

\* C1: for each of the three resolvers and every key, in the default table
\* or not, a non-null override_value (0 included) makes the call return a
\* factor whose value is the override and whose source is override_source,
\* or "User override" when no source is given; the call does not raise.
C1_OverridePrecedence ==
    (ResolverCalled /\ ~call.override_value.is_none) =>
        /\ ret.result.raised = ""
        /\ ret.result.value.value = call.override_value.v
        /\ ret.result.value.source =
               IF call.override_source.is_none \/ call.override_source.v = ""
               THEN "User override"
               ELSE call.override_source.v

C1_KeyInTable ==
    \/ call.fn = "get_material_factor"
           /\ call.key \in DOMAIN SIMPLIFIED_PV_MATERIAL_FACTORS
    \/ call.fn = "get_transport_factor"
           /\ call.key \in DOMAIN TRANSPORT_EMISSION_FACTORS
    \/ call.fn = "get_grid_electricity_factor"
           /\ ~_owid_cache.is_none
           /\ \E i \in 1..Len(_owid_cache.rows) :
                  /\ _owid_cache.rows[i].iso_code = call.key
                  /\ _owid_cache.rows[i].year = call.year

\* a zero override was given for a key that the default table holds
C1_Witness ==
    /\ ResolverCalled
    /\ call.override_value = Some(0)
    /\ C1_KeyInTable
    /\ ret.result.raised = ""
    /\ ret.result.value.value = 0

\* an override was given for a key that no default table holds
C1_WitnessUnknownKey ==
    /\ ResolverCalled
    /\ ~call.override_value.is_none
    /\ call.key \in {"timber", "hovercraft", "Atlantis"}
    /\ ret.result.raised = ""

GridCalled == call.fn = "get_grid_electricity_factor"

\* C2: a get_grid_electricity_factor call with a non-null override_value
\* makes no download attempt and leaves the process-wide OWID cache as it
\* found it, whether the cache was populated or not and whatever the remote
\* would have answered.
C2_OverrideNoFetch ==
    (GridCalled /\ ~call.override_value.is_none) =>
        /\ ret.downloads = 0
        /\ ret.slept = <<>>
        /\ _owid_cache = call.cache_before

\* an override call made while the cache was unpopulated and the remote was
\* ready to serve the table
C2_Witness ==
    /\ GridCalled
    /\ ~call.override_value.is_none
    /\ call.cache_before.is_none
    /\ call.responses[1] = OwidCsvV1
    /\ _owid_cache.is_none
    /\ ret.result.raised = ""

\* C6: with a null override, when the loaded table has no row whose country
\* name or ISO code is the requested country and whose year is the requested
\* year, get_grid_electricity_factor raises the not-found ValueError, whose
\* message names the country and the year, and returns no factor.
C6_NotFoundRaises ==
    (/\ GridCalled
     /\ call.override_value.is_none
     /\ ~_owid_cache.is_none
     /\ ~\E i \in 1..Len(_owid_cache.rows) :
            /\ call.key \in {_owid_cache.rows[i].country,
                             _owid_cache.rows[i].iso_code}
            /\ _owid_cache.rows[i].year = call.year)
    => /\ ret.result.raised = "ValueError"
       /\ ret.result.msg[1] = "No electricity emission factor found for"
       /\ ret.result.msg[2] = call.key
       /\ ret.result.msg[4] = call.year
       /\ ret.result.value = <<>>

\* GBR 2023 is asked of a table whose GBR 2023 cell was empty upstream
C6_Witness ==
    /\ GridCalled
    /\ call.override_value.is_none
    /\ call.key = "GBR"
    /\ call.year = 2023
    /\ ~_owid_cache.is_none
    /\ Len(_owid_cache.rows) = 2
    /\ ret.result.raised = "ValueError"

(***************************************************************************)
(* SpecStages: one caller uses the stage calculators, one call after the   *)
(* other.                                                                  *)
(***************************************************************************)
MaterialNames == {MaterialOrder[i] : i \in 1..Len(MaterialOrder)}

\* masses in kg; MaterialQuantities does not validate, so a negative mass
\* reaches the calculator
QtyValues == -1..MaxQty

MaterialInputs ==
    {None} \cup {Some(q) : q \in [MaterialNames -> QtyValues]}

EmbodiedCalls ==
    {[fn |-> "calculate_embodied_carbon", done |-> FALSE, materials |-> m] :
        m \in MaterialInputs}

\* the documented itinerary (50 t by ship over 8000 km, then by truck over
\* 200 km), a mode written with a capital and a space, an unknown mode, and
\* a leg with a negative mass, which TransportLegInput does not reject
LegInputs ==
    {TransportLeg("ship_container", 8000, 50),
     TransportLeg("truck_hgv", 200, 50),
     TransportLeg("Truck HGV", 3, 1),
     TransportLeg("hovercraft", 10, 1),
     TransportLeg("rail_freight", 7, -2)}

RECURSIVE SeqsUpTo(_, _)
SeqsUpTo(S, n) ==
    IF n = 0 THEN {<<>>}
    ELSE LET shorter == SeqsUpTo(S, n - 1) IN
         shorter \cup {Append(q, x) : q \in shorter, x \in S}

CustomFactorInputs ==
    {None, Some(<<>>), Some([m \in {"hovercraft"} |-> 5000])}

TransportCalls ==
    {[fn |-> "calculate_transport_emissions", done |-> FALSE,
      legs |-> legs, custom_factors |-> cf] :
        legs \in SeqsUpTo(LegInputs, MaxLegs), cf \in CustomFactorInputs}

\* embodied totals in 1e-2 kg: nothing, 14.87 kg, 10 t
EmbodiedTotals == {0, 1487, 1000000}

\* percentages in 0.1 %
ConstructionSimpleCalls ==
    {[fn |-> "calculate_construction_simple", done |-> FALSE,
      embodied_carbon_kgCO2e |-> e, percentage |-> pct] :
        e \in EmbodiedTotals, pct \in {0, 33, 50}}

ConstructionInput(method, percentage, equipment_usage, worker_transport_km, num_workers, num_days, grid_electricity_kwh) ==
    [method |-> method, percentage |-> percentage,
     equipment_usage |-> equipment_usage,
     worker_transport_km |-> worker_transport_km,
     num_workers |-> num_workers, num_days |-> num_days,
     grid_electricity_kwh |-> grid_electricity_kwh]

EquipmentDictInputs ==
    {None,
     Some(<<>>),
     Some(<<[equipment_type |-> "mobile_crane_medium", hours |-> 16]>>),
     Some(<<[equipment_type |-> "forklift_diesel", hours |-> 1],
            [equipment_type |-> "bulldozer", hours |-> 5],
            [equipment_type |-> "generator_small", hours |-> 3]>>),
     Some(<<[equipment_type |-> "telehandler"]>>)}

ConstructionInputs ==
    {None}
    \cup {Some(ConstructionInput("simple", pct, None, None, None, None, None)) :
            pct \in {None, Some(0), Some(33), Some(50)}}
    \cup {Some(ConstructionInput("detailed", Some(50), eq, km, w, d, kwh)) :
            eq \in EquipmentDictInputs,
            km \in {None, Some(0), Some(50)},
            w \in {None, Some(10)},
            d \in {None, Some(15)},
            kwh \in {None, Some(0), Some(200)}}
    \cup {Some(ConstructionInput("Detailed ", Some(50), None, None, None, None,
                                 Some(200)))}

\* grid factors in 1e-3 kg/kWh
ConstructionCalls ==
    {[fn |-> "calculate_construction_emissions", done |-> FALSE,
      construction_input |-> c, embodied_carbon_kgCO2e |-> e,
      grid_carbon_factor |-> g] :
        c \in ConstructionInputs, e \in EmbodiedTotals,
        g \in {None, Some(0), Some(200)}}

ReplacementInput(system_lifetime_years, module_degradation_rate_pct_per_year, inverter_lifetime_years, inverter_embodied_kgCO2e_per_kwp, additional_replacement_percent_of_embodied) ==
    [system_lifetime_years |-> system_lifetime_years,
     module_degradation_rate_pct_per_year |-> module_degradation_rate_pct_per_year,
     inverter_lifetime_years |-> inverter_lifetime_years,
     inverter_embodied_kgCO2e_per_kwp |-> inverter_embodied_kgCO2e_per_kwp,
     additional_replacement_percent_of_embodied |->
         additional_replacement_percent_of_embodied]

ReplacementInputs ==
    {None}
    \cup {Some(ReplacementInput(life, deg, inv, invf, add)) :
            life \in {0, 1, 25},
            deg \in {-5, 0, 5},
            inv \in {None, Some(0), Some(12), Some(24), Some(25)},
            invf \in {None, Some(300)},
            add \in {None, Some(0), Some(25)}}

ReplacementCalls ==
    {[fn |-> "calculate_replacement_emissions", done |-> FALSE,
      replacements_input |-> r, capacity_kwp |-> cap,
      annual_generation_kwh |-> gen, embodied_carbon_kgCO2e |-> e,
      carbon_factor |-> f] :
        r \in ReplacementInputs, cap \in {0, 123}, gen \in {0, 1000},
        e \in {0, 1487}, f \in {0, 200}}

BessInputs ==
    {None}
    \cup {Some([included |-> inc, capacity_kwh |-> cap,
                embodied_kgCO2e_per_kwh |-> f, roundtrip_efficiency |-> rte]) :
            inc \in BOOLEAN, cap \in {-10, 0, 135}, f \in {-1, 7500, 7533},
            rte \in {None, Some(90)}}

BessCalls ==
    {[fn |-> "calculate_bess_emissions", done |-> FALSE, bess_input |-> b] :
        b \in BessInputs}

StageCalls ==
    EmbodiedCalls \cup TransportCalls \cup ConstructionSimpleCalls
    \cup ConstructionCalls \cup ReplacementCalls \cup BessCalls

\* the caller is about to make one of the calls
InitStages ==
    /\ _owid_cache = NoCache
    /\ ServerIdle
    /\ call \in StageCalls
    /\ ret = NoRet

StageRet(result) == [result |-> result, downloads |-> 0, slept |-> <<>>]

StageCall(fn, result) ==
    /\ call.fn = fn /\ ~call.done
    /\ call' = [call EXCEPT !.done = TRUE]
    /\ ret' = StageRet(result)
    /\ UNCHANGED <<_owid_cache, serverVars>>

CallEmbodied ==
    StageCall("calculate_embodied_carbon",
              calculate_embodied_carbon(call.materials))

CallTransportEmissions ==
    StageCall("calculate_transport_emissions",
              calculate_transport_emissions(call.legs, call.custom_factors))

CallConstructionSimple ==
    StageCall("calculate_construction_simple",
              calculate_construction_simple(call.embodied_carbon_kgCO2e,
                                            call.percentage))

CallConstruction ==
    StageCall("calculate_construction_emissions",
              calculate_construction_emissions(call.construction_input,
                                               call.embodied_carbon_kgCO2e,
                                               call.grid_carbon_factor))

CallReplacement ==
    StageCall("calculate_replacement_emissions",
              calculate_replacement_emissions(call.replacements_input,
                                              call.capacity_kwp,
                                              call.annual_generation_kwh,
                                              call.embodied_carbon_kgCO2e,
                                              call.carbon_factor))

CallBess ==
    StageCall("calculate_bess_emissions",
              calculate_bess_emissions(call.bess_input))

NextStages ==
    \/ CallEmbodied
    \/ CallTransportEmissions
    \/ CallConstructionSimple
    \/ CallConstruction
    \/ CallReplacement
    \/ CallBess

SpecStages == InitStages /\ [][NextStages]_vars

EmbodiedCalled == call.fn = "calculate_embodied_carbon" /\ call.done

\* the breakdown entries of one material
EntriesOf(breakdown, material_key) ==
    {i \in 1..Len(breakdown) : breakdown[i].material = material_key}

\* the materials of the call whose factor resolves: the populated ones
C8_Populated == {"aluminium", "steel", "concrete"}

\* C8: in calculate_embodied_carbon, whatever the material quantities, a
\* material with positive quantity whose factor cannot be resolved (the
\* zero-valued placeholders glass, silicon_pv, copper) gets exactly one error
\* entry; every material with positive quantity and a populated factor still
\* gets exactly one success line carrying quantity * factor, and the total
\* still counts it; the call does not raise.
C8_PartialResults ==
    (EmbodiedCalled /\ ~call.materials.is_none) =>
        LET q == call.materials.v
            out == ret.result.value
        IN  /\ ret.result.raised = ""
            /\ \A m \in MaterialNames \ C8_Populated :
                   q[m] > 0 =>
                       \E i \in 1..Len(out.breakdown) :
                           /\ EntriesOf(out.breakdown, m) = {i}
                           /\ out.breakdown[i].kind = "error"
                           /\ out.breakdown[i].error # <<>>
            /\ \A m \in C8_Populated :
                   q[m] > 0 =>
                       \E i \in 1..Len(out.breakdown) :
                           /\ EntriesOf(out.breakdown, m) = {i}
                           /\ out.breakdown[i].kind = "line"
                           /\ out.breakdown[i].emissions_kgCO2e =
                                  RoundHalfEven(
                                      q[m] * SIMPLIFIED_PV_MATERIAL_FACTORS[m].value,
                                      10)
            /\ out.total_kgCO2e =
                   RoundHalfEven(
                       (IF q["aluminium"] > 0 THEN q["aluminium"] * 13100 ELSE 0)
                       + (IF q["steel"] > 0 THEN q["steel"] * 1640 ELSE 0)
                       + (IF q["concrete"] > 0 THEN q["concrete"] * 134 ELSE 0),
                       10)

\* glass cannot be resolved, steel and concrete can
C8_Witness ==
    /\ EmbodiedCalled
    /\ ~call.materials.is_none
    /\ call.materials.v["glass"] > 0
    /\ call.materials.v["aluminium"] > 0
    /\ call.materials.v["concrete"] > 0
    /\ ret.result.raised = ""
    /\ Len(ret.result.value.breakdown) >= 3

\* every order in which the six materials can be processed
MaterialOrders ==
    {p \in [1..Len(MaterialOrder) -> MaterialNames] :
        \A i, j \in 1..Len(MaterialOrder) : p[i] = p[j] => i = j}

\* the exact sum, in 1e-3 kg, of quantity_kg * factor over the materials of
\* S with a positive quantity and a populated factor
RECURSIVE C9_ExactSum(_, _)
C9_ExactSum(S, q) ==
    IF S = {} THEN 0
    ELSE LET m == CHOOSE x \in S : TRUE IN
         (IF q[m] > 0 /\ SIMPLIFIED_PV_MATERIAL_FACTORS[m].value # 0
          THEN q[m] * SIMPLIFIED_PV_MATERIAL_FACTORS[m].value ELSE 0)
         + C9_ExactSum(S \ {m}, q)

C9_OrderIndependent ==
    \A p \in MaterialOrders :
        EmbodiedOver(p, call.materials.v).value.total_kgCO2e =
            ret.result.value.total_kgCO2e

StageCalled ==
    /\ call.fn \in {"calculate_embodied_carbon", "calculate_transport_emissions",
                    "calculate_construction_simple",
                    "calculate_construction_emissions",
                    "calculate_replacement_emissions",
                    "calculate_bess_emissions"}
    /\ call.done
    /\ ret.result.raised = ""

Modules == [m \in MaterialNames |-> IF m \in {"aluminium", "steel"} THEN 1 ELSE 0]

\* a reinforced footing: 1 kg of steel and 1 kg of concrete, 1.774 kgCO2e
Slab == [m \in MaterialNames |-> IF m \in {"steel", "concrete"} THEN 1 ELSE 0]

Requests ==
    {SolarInput(TRUE, 2023, 10, 20, Some(Modules),
                Some(<<TransportLeg("ship_container", 8000, 50)>>),
                Some(ConstructionInput("detailed", Some(50), None, None, None,
                                       None, Some(200))),
                None, "GBR"),
     SolarInput(TRUE, 2023, 10, 20, Some(Modules),
                Some(<<TransportLeg("ship_container", 8000, 50)>>),
                Some(ConstructionInput("detailed", Some(50), None, None, None,
                                       None, Some(200))),
                Some(233), "GBR"),
     SolarInput(TRUE, 2022, 4, 15, Some(Slab), Some(<<>>),
                Some(ConstructionInput("simple", Some(330), None, None, None,
                                       None, None)),
                Some(0), "Atlantis"),
     SolarInput(FALSE, 2022, 10, 20, None, None, None, Some(233), "GBR")}

\* what get_pvgis_hourly can do: fail, or answer with one of the column
\* layouts of PVGIS (irradiance in Wh/m2, one timestep per entry)
PvgisOutcomes ==
    {Raise("HTTPError", <<"PVGIS request failed">>),
     Return([index |-> <<1, 2, 7>>,
             cols |-> [c \in {"G(h)"} \cup PoaComponents |->
                          CASE c = "G(h)" -> <<500, -20, 1000>>
                            [] c = "poa_direct" -> <<300, 0, 600>>
                            [] c = "poa_sky_diffuse" -> <<100, 0, 150>>
                            [] OTHER -> <<0, 0, 50>>]]),
     Return([index |-> <<1, 7, 7>>,
             cols |-> [c \in PoaComponents |->
                          IF c = "poa_direct" THEN <<300, 600, 200>>
                          ELSE IF c = "poa_sky_diffuse" THEN <<100, 150, 50>>
                          ELSE <<0, 50, 0>>]]),
     Return([index |-> <<1>>,
             cols |-> [c \in {"poa_direct", "temp_air"} |-> <<300>>]]),
     Return([index |-> <<1, 12>>,
             cols |-> [c \in {"G(h)", "temp_air"} |->
                          IF c = "G(h)" THEN <<0, 0>> ELSE <<5, -2>>]])}

Init ==
    /\ _owid_cache = NoCache
    /\ ServerIdle
    /\ call = NoCall
    /\ ret = NoRet

\* lines 187-200 up to the first read of the shared cache: get_coordinates
\* and the override branch of get_grid_electricity_factor
Request(t) ==
    /\ pc[t] = "idle"
    /\ \E input \in Requests :
        /\ req' = [req EXCEPT ![t] = input]
        /\ IF get_coordinates(input).raised # "" THEN
               /\ pc' = [pc EXCEPT ![t] = "raised"]
               /\ response' = [response EXCEPT ![t] =
                                  Failure("get_coordinates", get_coordinates(input))]
               /\ ef' = ef
           ELSE IF ~GridNeedsLoad(input.carbon_factor_override) THEN
               /\ pc' = [pc EXCEPT ![t] = "get_pvgis_hourly"]
               /\ ef' = [ef EXCEPT ![t] =
                            OverrideFactor(input.country_code, input.year,
                                           input.carbon_factor_override,
                                           Some("User override (API request)"))]
               /\ response' = response
           ELSE
               /\ pc' = [pc EXCEPT ![t] = "_load_owid_data"]
               /\ UNCHANGED <<ef, response>>
    /\ UNCHANGED <<_owid_cache, attempt, wait_time, pvgis, pvgis_data, call, ret>>

\* emissions_factors.py line 67: if _owid_cache is None
CheckCache(t) ==
    /\ pc[t] = "_load_owid_data"
    /\ IF _owid_cache.is_none
       THEN /\ pc' = [pc EXCEPT ![t] = "download"]
            /\ attempt' = [attempt EXCEPT ![t] = 0]
       ELSE /\ pc' = [pc EXCEPT ![t] = "lookup"]
            /\ attempt' = attempt
    /\ UNCHANGED <<_owid_cache, req, wait_time, ef, pvgis, pvgis_data, response, call, ret>>

\* lines 72-116 and 120-124: one pass of the retry loop around requests.get
Download(t) ==
    /\ pc[t] = "download"
    /\ \E resp \in Responses :
        LET step == LoadAttempt(resp, attempt[t]) IN
        CASE step.next = "retry" ->
               /\ pc' = [pc EXCEPT ![t] = "sleep"]
               /\ wait_time' = [wait_time EXCEPT ![t] = step.wait]
               /\ UNCHANGED <<_owid_cache, response>>
          [] step.next = "raise" ->
               /\ pc' = [pc EXCEPT ![t] = "raised"]
               /\ response' = [response EXCEPT ![t] =
                                  Failure("get_grid_electricity_factor", step.exc)]
               /\ UNCHANGED <<_owid_cache, wait_time>>
          [] step.next = "return" ->
               /\ _owid_cache' = step.cache
               /\ pc' = [pc EXCEPT ![t] = "lookup"]
               /\ UNCHANGED <<wait_time, response>>
    /\ UNCHANGED <<req, attempt, ef, pvgis, pvgis_data, call, ret>>

\* line 118: time.sleep(wait_time), then the next pass of the for loop
Sleep(t) ==
    /\ pc[t] = "sleep"
    /\ attempt[t] < MaxAttempt
    /\ pc' = [pc EXCEPT ![t] = "download"]
    /\ attempt' = [attempt EXCEPT ![t] = @ + 1]
    /\ wait_time' = [wait_time EXCEPT ![t] = 0]
    /\ UNCHANGED <<_owid_cache, req, ef, pvgis, pvgis_data, response, call, ret>>

\* lines 126 and 175-199: return _owid_cache, then the lookup in it
Lookup(t) ==
    /\ pc[t] = "lookup"
    /\ LET found == LookupGrid(_owid_cache, req[t].country_code, req[t].year) IN
       IF found.raised # "" THEN
           /\ pc' = [pc EXCEPT ![t] = "raised"]
           /\ response' = [response EXCEPT ![t] =
                              Failure("get_grid_electricity_factor", found)]
           /\ ef' = ef
       ELSE
           /\ pc' = [pc EXCEPT ![t] = "get_pvgis_hourly"]
           /\ ef' = [ef EXCEPT ![t] = found.value]
           /\ response' = response
    /\ UNCHANGED <<_owid_cache, req, attempt, wait_time, pvgis, pvgis_data, call, ret>>

\* main.py lines 205-322: the irradiance request and everything after it
Estimate(t) ==
    /\ pc[t] = "get_pvgis_hourly"
    /\ \E fetched \in PvgisOutcomes :
        LET out == CalculateFrom(req[t], ef[t], fetched) IN
        /\ pvgis' = [pvgis EXCEPT ![t] = fetched]
        /\ pvgis_data' = [pvgis_data EXCEPT ![t] = DataAfter(fetched)]
        /\ response' = [response EXCEPT ![t] = out]
        /\ pc' = [pc EXCEPT ![t] = IF out.status = "ok" THEN "done" ELSE "raised"]
    /\ UNCHANGED <<_owid_cache, req, attempt, wait_time, ef, call, ret>>

\* the worker thread hands the report or the exception to the framework and
\* is free for the next request
Respond(t) ==
    /\ pc[t] \in {"done", "raised"}
    /\ pc' = [pc EXCEPT ![t] = "idle"]
    /\ req' = [req EXCEPT ![t] = NoRequest]
    /\ attempt' = [attempt EXCEPT ![t] = 0]
    /\ wait_time' = [wait_time EXCEPT ![t] = 0]
    /\ ef' = [ef EXCEPT ![t] = NoFactor]
    /\ pvgis' = [pvgis EXCEPT ![t] = NoFetch]
    /\ pvgis_data' = [pvgis_data EXCEPT ![t] = NoData]
    /\ response' = [response EXCEPT ![t] = NoResponse]
    /\ UNCHANGED <<_owid_cache, call, ret>>

Next ==
    \E t \in Threads :
        \/ Request(t)
        \/ CheckCache(t)
        \/ Download(t)
        \/ Sleep(t)
        \/ Lookup(t)
        \/ Estimate(t)
        \/ Respond(t)

Spec == Init /\ [][Next]_vars

\* a worker thread that is inside calculate() keeps running: requests.get
\* returns or times out, and time.sleep returns
FairSpec ==
    Spec /\ \A t \in Threads :
                WF_vars(CheckCache(t) \/ Download(t) \/ Sleep(t) \/ Lookup(t)
                        \/ Estimate(t) \/ Respond(t))

(***************************************************************************)
(* Claims about the shared cache and the failure of a request.             *)
(***************************************************************************)
\* the threads inside the `if _owid_cache is None:` block
Loading == {t \in Threads : pc[t] \in {"download", "sleep"}}

\* C3: when several requests reach _load_owid_data while the cache is
\* unpopulated, first access is serialized: at most one of them is ever
\* inside the download loop, so at most one download is started before the
\* cache is populated.
C3_FirstAccessSerialized == Cardinality(Loading) <= 1

\* thread t performs a download in this step
Downloads(t) == pc[t] = "download" /\ pc'[t] # "download"

\* C4: once the cache is populated, no step starts a download and no step
\* changes the cached table.
C4_PopulatedIsReadOnly ==
    [][~_owid_cache.is_none =>
          /\ _owid_cache' = _owid_cache
          /\ \A t \in Threads : ~Downloads(t)]_vars

\* the same for callers that come one after the other
C4_Sequential ==
    [][~_owid_cache.is_none =>
          /\ _owid_cache' = _owid_cache
          /\ ret'.downloads = 0]_vars

\* C5, the bound: a thread in the loop is at attempt 0, 1 or 2, so a call
\* makes at most max_retries downloads
C5_AtMostThree ==
    \A t \in Threads : pc[t] \in {"download", "sleep"} => attempt[t] \in 0..(max_retries - 1)

\* C5, the backoff: a thread sleeps 2^attempt seconds, which is 1 s after
\* the first failure and 2 s after the second
C5_Backoff ==
    \A t \in Threads :
        pc[t] = "sleep" =>
            /\ wait_time[t] = 2 ^ attempt[t]
            /\ <<attempt[t], wait_time[t]>> \in {<<0, 1>>, <<1, 2>>}

\* C5, the terminal error: the third download is never followed by a sleep,
\* and a thread leaves the loop only with a populated cache or an exception
C5_Terminal ==
    [][\A t \in Threads :
          /\ (Downloads(t) /\ attempt[t] = max_retries - 1) =>
                 \/ pc'[t] = "lookup" /\ ~_owid_cache'.is_none
                 \/ pc'[t] = "raised" /\ response'[t].status = "raised"
          /\ (Downloads(t) /\ pc'[t] = "sleep") => attempt[t] < max_retries - 1]_vars

C7_OnlyOperationalAborted ==
    \A t \in Threads :
        (/\ pc[t] \in {"done", "raised"}
         /\ response[t].failed \in {"get_grid_electricity_factor", "get_pvgis_hourly"})
        => /\ response[t].status = "ok"
           /\ {"operational", "embodied", "transport", "construction"}
                  \subseteq DOMAIN response[t].report

(***************************************************************************)
(* Claims about the figures handed from stage to stage.                    *)
(***************************************************************************)
\* thread t holds the report of a request that asked for the Simple
\* construction method and listed its materials
SimpleReportOf(t) ==
    /\ pc[t] = "done"
    /\ ~req[t].materials.is_none
    /\ ~req[t].construction.is_none
    /\ req[t].construction.v.method = "simple"

\* C11: the embodied total that calculate passes into the construction
\* stage is the unrounded sum of the per-material emissions, so the
\* construction total is (unrounded embodied total) * percentage / 100
\* rounded once.
C11_UnroundedIntoConstruction ==
    \A t \in Threads :
        SimpleReportOf(t) =>
            response[t].report.construction.total_kgCO2e =
                RoundHalfEven(C9_ExactSum(MaterialNames, req[t].materials.v)
                              * OrNum(req[t].construction.v.percentage, 50),
                              10000)

(***************************************************************************)
(* Claims about calculate_transport_emissions.                             *)
(***************************************************************************)
TransportCalled == call.fn = "calculate_transport_emissions" /\ call.done

\* the leg's mode has a custom factor or is a key of the default table
Resolvable(leg, custom_factors) ==
    \/ ~CustomFactor(custom_factors, leg.mode).is_none
    \/ ModeKey(leg.mode) \in DOMAIN TRANSPORT_EMISSION_FACTORS

\* the factor of a resolvable leg, in 1e-5 kgCO2e/tkm
FactorOf(leg, custom_factors) ==
    IF ~CustomFactor(custom_factors, leg.mode).is_none
    THEN CustomFactor(custom_factors, leg.mode).v
    ELSE TRANSPORT_EMISSION_FACTORS[ModeKey(leg.mode)].value

\* the unrounded emissions, in 1e-5 kg, of the resolvable legs among the
\* first n
RECURSIVE ResolvableSum(_, _, _)
ResolvableSum(legs, custom_factors, n) ==
    IF n = 0 THEN 0
    ELSE ResolvableSum(legs, custom_factors, n - 1)
         + (IF Resolvable(legs[n], custom_factors)
            THEN legs[n].distance_km * legs[n].mass_tonnes
                 * FactorOf(legs[n], custom_factors)
            ELSE 0)

\* C12: the breakdown has exactly one entry per input leg, in input order,
\* and the entry of the i-th leg (counted from 0) carries leg number i + 1,
\* whether it is a success line or an error entry.
C12_OneEntryPerLeg ==
    TransportCalled =>
        /\ ret.result.raised = ""
        /\ LET breakdown == ret.result.value.breakdown IN
           /\ Len(breakdown) = Len(call.legs)
           /\ \A n \in 1..Len(call.legs) :
                /\ breakdown[n].leg = n
                /\ breakdown[n].kind \in {"line", "error"}
                /\ breakdown[n].kind = "error" =>
                       breakdown[n].mode = call.legs[n].mode
                /\ breakdown[n].kind = "line" =>
                       /\ breakdown[n].distance_km = call.legs[n].distance_km
                       /\ breakdown[n].mass_tonnes = call.legs[n].mass_tonnes

\* two different legs, the first a success line and the second an error entry
C12_Witness ==
    /\ TransportCalled
    /\ Len(call.legs) = 2
    /\ call.legs[1] # call.legs[2]
    /\ ret.result.value.breakdown[1].kind = "line"
    /\ ret.result.value.breakdown[2].kind = "error"
    /\ ret.result.value.breakdown[2].leg = 2

\* C13: a leg whose mode is neither in the default table nor given a custom
\* factor produces an error entry with its 1-based leg number and adds
\* nothing to the total; the other legs are still processed, the reported
\* total is the sum over the resolvable legs only, and the call does not
\* raise.
C13_UnknownModeIsolated ==
    TransportCalled =>
        /\ ret.result.raised = ""
        /\ Len(ret.result.value.breakdown) = Len(call.legs)
        /\ \A n \in 1..Len(call.legs) :
             LET entry == ret.result.value.breakdown[n] IN
             IF Resolvable(call.legs[n], call.custom_factors)
             THEN entry.kind = "line"
             ELSE /\ entry.kind = "error"
                  /\ entry.leg = n
                  /\ entry.error # <<>>
        /\ ret.result.value.total_kgCO2e =
               RoundKg(ResolvableSum(call.legs, call.custom_factors,
                                     Len(call.legs)), 100000)

\* an unknown mode first, and the leg after it still counted in the total
C13_Witness ==
    /\ TransportCalled
    /\ Len(call.legs) = 2
    /\ ~Resolvable(call.legs[1], call.custom_factors)
    /\ Resolvable(call.legs[2], call.custom_factors)
    /\ ret.result.value.breakdown[1].kind = "error"
    /\ ret.result.value.breakdown[2].kind = "line"
    /\ ret.result.value.total_kgCO2e > 0

ShipLeg == TransportLeg("ship_container", 8000, 50)

\* C14: for every resolvable leg tonne_km = distance_km * mass_tonnes and
\* emissions = tonne_km * factor, both reported to 2 decimals, and the
\* reported total is the sum of the legs' emissions; 50 t over 8000 km by
\* ship_container gives tonne_km 400000 and 2524.0 kgCO2e.
C14_TonneKmTimesFactor ==
    TransportCalled =>
        /\ \A n \in 1..Len(call.legs) :
             LET entry == ret.result.value.breakdown[n]
                 leg == call.legs[n]
             IN  Resolvable(leg, call.custom_factors) =>
                     /\ entry.tonne_km = 100 * leg.distance_km * leg.mass_tonnes
                     /\ entry.factor_kgCO2e_per_tkm =
                            FactorOf(leg, call.custom_factors)
                     /\ entry.emissions_kgCO2e =
                            RoundKg(leg.distance_km * leg.mass_tonnes
                                    * FactorOf(leg, call.custom_factors), 100000)
        /\ ret.result.value.total_kgCO2e =
               RoundKg(ResolvableSum(call.legs, call.custom_factors,
                                     Len(call.legs)), 100000)
        /\ (call.legs = <<ShipLeg>> /\ call.custom_factors.is_none) =>
               /\ ret.result.value.breakdown[1].tonne_km = 40000000
               /\ ret.result.value.breakdown[1].factor_kgCO2e_per_tkm = 631
               /\ ret.result.value.breakdown[1].emissions_kgCO2e = 252400
               /\ ret.result.value.total_kgCO2e = 252400

\* the single ship leg of the example
C14_Witness ==
    /\ TransportCalled
    /\ call.legs = <<ShipLeg>>
    /\ call.custom_factors.is_none
    /\ ret.result.value.total_kgCO2e = 252400

(***************************************************************************)
(* Claims about the construction stage.                                    *)
(***************************************************************************)
\* calculate_construction_emissions was called with a Simple request
SimpleCalled ==
    /\ call.fn = "calculate_construction_emissions"
    /\ call.done
    /\ ~call.construction_input.is_none
    /\ call.construction_input.v.method = "simple"

\* C15: for a Simple request total = embodied_carbon_kgCO2e * (percentage /
\* 100) for every supplied percentage, 0 included, and 5.0 stands in only
\* when the percentage is unset; embodied 10000 at 5.0 gives 500.0.
C15_SimplePercentage ==
    SimpleCalled =>
        LET percentage == call.construction_input.v.percentage
            used == IF percentage.is_none THEN 50 ELSE percentage.v
        IN  /\ ret.result.raised = ""
            /\ ret.result.value.total_kgCO2e =
                   RoundKg(call.embodied_carbon_kgCO2e * used, 100000)
            /\ (call.embodied_carbon_kgCO2e = 1000000 /\ used = 50) =>
                   ret.result.value.total_kgCO2e = 50000

(***************************************************************************)
(* Claims about the operational stage.                                     *)
(***************************************************************************)
\* thread t's request went as far as an answer of get_pvgis_hourly with data
Fetched(t) == pc[t] \in {"done", "raised"} /\ pvgis[t].raised = ""

HasGh(data) == "G(h)" \in DOMAIN data.cols

HasComponents(data) == PoaComponents \subseteq DOMAIN data.cols

\* the sum of the three plane-of-array components at each timestep
ComponentSum(data) ==
    [i \in 1..Len(data.index) |->
        data.cols["poa_direct"][i] + data.cols["poa_sky_diffuse"][i]
        + data.cols["poa_ground_diffuse"][i]]

\* the irradiance series the selection policy prescribes
PrescribedSeries(data) ==
    IF HasGh(data) THEN data.cols["G(h)"] ELSE ComponentSum(data)

\* area * irradiance * efficiency summed over the timesteps of positive
\* product, in 1e-5 kWh
RECURSIVE FlooredSum(_, _, _, _)
FlooredSum(area_m2, irr, module_efficiency, n) ==
    IF n = 0 THEN 0
    ELSE FlooredSum(area_m2, irr, module_efficiency, n - 1)
         + (IF area_m2 * irr[n] * module_efficiency > 0
            THEN area_m2 * irr[n] * module_efficiency ELSE 0)

\* C16: per-timestep generation is area_m2 * (irradiance / 1000) *
\* module_efficiency floored at zero, so every timestep's generation, the
\* annual total and, for a non-negative carbon factor, the avoided emissions
\* are all >= 0; an all-zero series gives annual generation 0 and avoided
\* emissions 0.
C16_GenerationNonNegative ==
    \A t \in Threads :
        (Fetched(t) /\ pc[t] = "done") =>
            LET irr == PrescribedSeries(pvgis[t].value)
                pv_kwh == PvKwh(req[t].area_m2, irr, req[t].module_efficiency)
                operational == response[t].report.operational
            IN  /\ \A i \in 1..Len(irr) :
                     /\ pv_kwh[i] >= 0
                     /\ pv_kwh[i] \in {0, req[t].area_m2 * irr[i]
                                            * req[t].module_efficiency}
                /\ operational.annual_generation_kwh =
                       RoundHalfEven(FlooredSum(req[t].area_m2, irr,
                                                req[t].module_efficiency,
                                                Len(irr)), 10000)
                /\ operational.annual_generation_kwh >= 0
                /\ \A month \in DOMAIN operational.monthly_kwh :
                       operational.monthly_kwh[month] >= 0
                /\ ef[t].value >= 0 =>
                       /\ operational.annual_avoided_kgCO2e >= 0
                       /\ operational.annual_avoided_tonnesCO2e >= 0
                /\ (\A i \in 1..Len(irr) : irr[i] = 0) =>
                       /\ operational.annual_generation_kwh = 0
                       /\ operational.annual_avoided_kgCO2e = 0

\* a report over a series with a negative reading: its month shows zero and
\* the year still has generation and avoided emissions
C16_Witness ==
    \E t \in Threads :
        /\ Fetched(t)
        /\ pc[t] = "done"
        /\ \E i \in 1..Len(PrescribedSeries(pvgis[t].value)) :
               /\ PrescribedSeries(pvgis[t].value)[i] < 0
               /\ response[t].report.operational.monthly_kwh[
                      pvgis[t].value.index[i]] = 0
        /\ response[t].report.operational.annual_generation_kwh > 0
        /\ response[t].report.operational.annual_avoided_kgCO2e > 0

\* a report over an all-zero series
C16_WitnessAllZero ==
    \E t \in Threads :
        /\ Fetched(t)
        /\ pc[t] = "done"
        /\ \A i \in 1..Len(PrescribedSeries(pvgis[t].value)) :
               PrescribedSeries(pvgis[t].value)[i] = 0
        /\ response[t].report.operational.annual_generation_kwh = 0

\* C17: G(h) is used when present, even if the three plane-of-array
\* components are present too; otherwise the per-timestep sum of the three
\* components is used when all three are present; otherwise the
\* computation fails with a missing-data error and no report is produced.
C17_ColumnPriority ==
    \A t \in Threads :
        Fetched(t) =>
            LET data == pvgis[t].value
                annual(irr) ==
                    RoundHalfEven(FlooredSum(req[t].area_m2, irr,
                                             req[t].module_efficiency,
                                             Len(irr)), 10000)
            IN
            IF HasGh(data) THEN
                /\ response[t].status = "ok"
                /\ response[t].report.assumptions.irradiance_column_used = "G(h)"
                /\ response[t].report.operational.annual_generation_kwh =
                       annual(data.cols["G(h)"])
            ELSE IF HasComponents(data) THEN
                /\ response[t].status = "ok"
                /\ response[t].report.assumptions.irradiance_column_used =
                       "poa_global"
                /\ response[t].report.operational.annual_generation_kwh =
                       annual(ComponentSum(data))
            ELSE
                /\ response[t].status = "raised"
                /\ response[t].exc.raised = "KeyError"
                /\ response[t].report = <<>>

\* G(h) and the three components are all present with different readings,
\* and the report is built on G(h)
C17_Witness ==
    \E t \in Threads :
        /\ Fetched(t)
        /\ HasGh(pvgis[t].value)
        /\ HasComponents(pvgis[t].value)
        /\ ComponentSum(pvgis[t].value) # pvgis[t].value.cols["G(h)"]
        /\ response[t].report.assumptions.irradiance_column_used = "G(h)"

\* neither G(h) nor all three components: the request ends without a report
C17_WitnessMissing ==
    \E t \in Threads :
        /\ Fetched(t)
        /\ ~HasGh(pvgis[t].value)
        /\ ~HasComponents(pvgis[t].value)
        /\ response[t].exc.raised = "KeyError"

(***************************************************************************)
(* Claims about calculate_replacement_emissions.                           *)
(***************************************************************************)
\* the calculator was called with a request whose lifetime is at least one
\* year and whose degradation rate is not negative
ReplacementCalled ==
    /\ call.fn = "calculate_replacement_emissions"
    /\ call.done
    /\ ~call.replacements_input.is_none
    /\ call.replacements_input.v.system_lifetime_years >= 1
    /\ call.replacements_input.v.module_degradation_rate_pct_per_year >= 0

\* (1 - degradation_rate) ^ i in 1e-9, rounded down at every step
RECURSIVE PowerBelow(_, _)
PowerBelow(factor, i) ==
    IF i = 0 THEN 1000000000
    ELSE LET p == PowerBelow(factor, i - 1) IN
         (p \div 1000) * factor + ((p % 1000) * factor) \div 1000

\* the same rounded up at every step
RECURSIVE PowerAbove(_, _)
PowerAbove(factor, i) ==
    IF i = 0 THEN 1000000000
    ELSE LET p == PowerAbove(factor, i - 1) IN
         (p \div 1000) * factor + ((p % 1000) * factor + 999) \div 1000

\* bounds, in 1e-7, of the sum of the powers for i = 0 .. n - 1
RECURSIVE PowerSumBelow(_, _)
PowerSumBelow(factor, n) ==
    IF n = 0 THEN 0
    ELSE PowerSumBelow(factor, n - 1) + PowerBelow(factor, n - 1) \div 100

RECURSIVE PowerSumAbove(_, _)
PowerSumAbove(factor, n) ==
    IF n = 0 THEN 0
    ELSE PowerSumAbove(factor, n - 1) + (PowerAbove(factor, n - 1) + 99) \div 100

\* bounds, in 0.1 kWh, of the sum over i = 0 .. n - 1 of
\* annual * (1 - degradation_rate) ^ i, for annual >= 0 in kWh
GenerationBelow(annual, factor, n) ==
    (annual * (PowerSumBelow(factor, n) \div 1000)) \div 1000

GenerationAbove(annual, factor, n) ==
    (annual * ((PowerSumAbove(factor, n) + 999) \div 1000) + 999) \div 1000

\* C18: lifetime_generation is the sum over year index i = 0 ..
\* lifetime_years - 1 of annual_generation_kwh * (1 - degradation_rate) ^ i,
\* and at a degradation rate of 0 it is lifetime_years * annual_generation_kwh
\* exactly (25 * annual for 25 years).
C18_LifetimeGeneration ==
    ReplacementCalled =>
        LET in == call.replacements_input.v
            n == in.system_lifetime_years
            factor == 1000 - in.module_degradation_rate_pct_per_year
            annual == call.annual_generation_kwh
            reported == ret.result.value.lifetime_generation_kwh
        IN  /\ ret.result.raised = ""
            /\ reported >= GenerationBelow(annual, factor, n)
            /\ reported <= GenerationAbove(annual, factor, n)
            /\ factor = 1000 => reported = 10 * n * annual
            /\ (factor = 1000 /\ n = 25) => reported = 250 * annual

\* 25 years without degradation at 1000 kWh a year
C18_Witness ==
    /\ ReplacementCalled
    /\ call.replacements_input.v.system_lifetime_years = 25
    /\ call.replacements_input.v.module_degradation_rate_pct_per_year = 0
    /\ call.annual_generation_kwh = 1000
    /\ ret.result.value.lifetime_generation_kwh = 250000

\* 25 years at 0.5 %/year and 1000 kWh a year
ExampleCalled ==
    /\ ReplacementCalled
    /\ call.replacements_input.v.system_lifetime_years = 25
    /\ call.replacements_input.v.module_degradation_rate_pct_per_year = 5
    /\ call.annual_generation_kwh = 1000

\* C19 as stated: for 25 years, 0.5 %/year and 1000 kWh the reported
\* lifetime_generation is within 1 kWh of 23,432 kWh.
C19_AsStated ==
    ExampleCalled =>
        Abs(ret.result.value.lifetime_generation_kwh - 234320) <= 10

\* C19 amended: for 25 years, 0.5 %/year and 1000 kWh the reported
\* lifetime_generation is within 1 kWh of 23,556 kWh.
C19_LifetimeExample ==
    ExampleCalled =>
        Abs(ret.result.value.lifetime_generation_kwh - 235560) <= 10

C19_Witness ==
    /\ ExampleCalled
    /\ ret.result.value.lifetime_generation_kwh > 0
    /\ ret.result.value.system_lifetime_years = 25

\* C20: the inverter replacement count is floor((lifetime_years - 1) /
\* inverter_lifetime_years) when inverter_lifetime_years > 0 and 0 when it
\* is unset or 0; it is the number of positive multiples of
\* inverter_lifetime_years strictly below lifetime_years (25 and 12 give 2).
C20_InverterCount ==
    ReplacementCalled =>
        LET in == call.replacements_input.v
            n == in.system_lifetime_years
            count == ret.result.value.inverter_replacements
        IN  IF in.inverter_lifetime_years.is_none
               \/ in.inverter_lifetime_years.v <= 0
            THEN count = 0
            ELSE LET life == in.inverter_lifetime_years.v IN
                 /\ count = (n - 1) \div life
                 /\ count = Cardinality({k \in 1..n : k * life < n})
                 /\ (n = 25 /\ life = 12) => count = 2

\* 25 years with a 12-year inverter
C20_Witness ==
    /\ ReplacementCalled
    /\ call.replacements_input.v.system_lifetime_years = 25
    /\ ~call.replacements_input.v.inverter_lifetime_years.is_none
    /\ call.replacements_input.v.inverter_lifetime_years.v = 12
    /\ ret.result.value.inverter_replacements = 2

\* an inverter that lasts as long as the system is never replaced
C20_WitnessFullLife ==
    /\ ReplacementCalled
    /\ call.replacements_input.v.system_lifetime_years = 25
    /\ ~call.replacements_input.v.inverter_lifetime_years.is_none
    /\ call.replacements_input.v.inverter_lifetime_years.v = 25
    /\ ret.result.value.inverter_replacements = 0

(***************************************************************************)
(* Claims about the report and about out-of-range requests.                *)
(***************************************************************************)
\* C21: the report returned by calculate has the top-level stage keys
\* operational, embodied, transport, construction and replacement: the
\* replacement calculator is invoked and its result is included.
C21_ReportHasReplacement ==
    \A t \in Threads :
        (pc[t] = "done" /\ response[t].status = "ok") =>
            {"operational", "embodied", "transport", "construction",
             "replacement"} \subseteq DOMAIN response[t].report

\* the breakdown holds an error entry for leg number n
LegRejected(breakdown, n) ==
    \E k \in 1..Len(breakdown) :
        breakdown[k].leg = n /\ breakdown[k].kind = "error"

\* C22: an out-of-range request field is rejected: a negative material
\* mass, a negative transport mass or distance, or a degradation rate below
\* 0 makes the stage fail with an error (the call raises, or the entry of
\* the offending item is an error entry); the stage does not skip the item,
\* clamp the value or report negative emissions.
C22_OutOfRangeRejected ==
    /\ (/\ EmbodiedCalled
        /\ ~call.materials.is_none
        /\ \E m \in MaterialNames : call.materials.v[m] < 0)
       => \/ ret.result.raised # ""
          \/ \A m \in MaterialNames :
                call.materials.v[m] < 0 =>
                    \E k \in 1..Len(ret.result.value.breakdown) :
                        /\ ret.result.value.breakdown[k].material = m
                        /\ ret.result.value.breakdown[k].kind = "error"
    /\ (call.fn = "calculate_transport_emissions" /\ call.done)
       => \/ ret.result.raised # ""
          \/ \A i \in 1..Len(call.legs) :
                (call.legs[i].mass_tonnes < 0 \/ call.legs[i].distance_km < 0)
                    => LegRejected(ret.result.value.breakdown, i)
    /\ (/\ call.fn = "calculate_replacement_emissions" /\ call.done
        /\ ~call.replacements_input.is_none
        /\ call.replacements_input.v.module_degradation_rate_pct_per_year < 0)
       => ret.result.raised # ""

(***************************************************************************)
(* Claims about the detailed construction method.                          *)
(***************************************************************************)
\* a finished call of calculate_construction_emissions that dispatched to
\* calculate_construction_detailed
DetailedCalled ==
    /\ call.fn = "calculate_construction_emissions" /\ call.done
    /\ ~call.construction_input.is_none
    /\ call.construction_input.v.method = "detailed"

\* the grid-electricity lines of a breakdown
GridLines(breakdown) ==
    {k \in 1..Len(breakdown) :
        breakdown[k].activity = <<"Grid electricity on site">>}

\* C23: when grid_electricity_kwh is truthy the factor applied is the
\* supplied grid_carbon_factor whenever one is supplied (any non-null value,
\* 0 included) and the static default 0.234 kgCO2e/kWh only when none is
\* supplied; when grid_electricity_kwh is absent or 0 no grid-electricity
\* line is added.
C23_GridFactorSupplied ==
    DetailedCalled =>
        LET kwh == call.construction_input.v.grid_electricity_kwh
            breakdown == ret.result.value.breakdown
            factor == IF call.grid_carbon_factor.is_none THEN 234
                      ELSE call.grid_carbon_factor.v
        IN  IF Truthy(kwh) THEN
                /\ Cardinality(GridLines(breakdown)) = 1
                /\ \A k \in GridLines(breakdown) :
                      /\ breakdown[k].description = <<kwh.v, "kWh @", factor>>
                      /\ breakdown[k].emissions_kgCO2e =
                             RoundHalfEven(kwh.v * factor, 10)
            ELSE GridLines(breakdown) = {}

\* threads t and u hold the reports of two requests that asked for the
\* Detailed method and differ at most in what decides the operational
\* carbon factor: country_code, year and carbon_factor_override
DifferOnlyInFactor(t, u) ==
    /\ pc[t] = "done" /\ pc[u] = "done"
    /\ ~req[t].construction.is_none
    /\ req[t].construction.v.method = "detailed"
    /\ [req[t] EXCEPT !.country_code = "", !.year = 0,
                      !.carbon_factor_override = None]
       = [req[u] EXCEPT !.country_code = "", !.year = 0,
                        !.carbon_factor_override = None]

\* C24: the on-site grid-electricity factor of the Detailed method is
\* independent of the operational stage's resolved grid factor: two
\* requests that differ only in the resolved operational carbon factor get
\* identical construction stage results.
C24_ConstructionIndependentOfFactor ==
    \A t, u \in Threads :
        DifferOnlyInFactor(t, u) =>
            response[t].report.construction = response[u].report.construction

\* the usages whose equipment_type is in EQUIPMENT_FUEL_RATES, in input order
KnownUsages(equipment_usage) ==
    SelectSeq(equipment_usage,
              LAMBDA u : u.equipment_type \in DOMAIN EQUIPMENT_FUEL_RATES)

\* consumption rate * hours * fuel factor of one usage, in 1e-5 kg
EquipmentAmount(usage) ==
    EQUIPMENT_FUEL_RATES[usage.equipment_type].consumption_l_per_hour
    * usage.hours
    * FUEL_EMISSION_FACTORS[EQUIPMENT_FUEL_RATES[usage.equipment_type].fuel_type].value
    * 100

\* the lines a Detailed request is to produce, as <<kind, amount in 1e-5 kg>>:
\* the known equipment in input order, then worker transport when km,
\* workers and days are all present and non-zero, then grid electricity
\* when the kWh are non-zero (at the factor the call applies)
GatedLines(in, grid_carbon_factor) ==
    LET known == KnownUsages(EquipmentFromDicts(in.equipment_usage))
        equipment == [i \in 1..Len(known) |->
                         <<"equipment", EquipmentAmount(known[i]),
                           EQUIPMENT_FUEL_RATES[known[i].equipment_type].description,
                           known[i].hours>>]
        worker ==
            IF /\ ~in.worker_transport_km.is_none /\ in.worker_transport_km.v # 0
               /\ ~in.num_workers.is_none /\ in.num_workers.v # 0
               /\ ~in.num_days.is_none /\ in.num_days.v # 0
            THEN << <<"worker",
                      in.worker_transport_km.v * in.num_workers.v
                      * in.num_days.v * 17058,
                      "Worker transport", in.num_workers.v>> >>
            ELSE <<>>
        grid ==
            IF ~in.grid_electricity_kwh.is_none /\ in.grid_electricity_kwh.v # 0
            THEN << <<"grid",
                      in.grid_electricity_kwh.v * 100
                      * (IF Truthy(grid_carbon_factor) THEN grid_carbon_factor.v
                         ELSE 234),
                      "Grid electricity on site", 0>> >>
            ELSE <<>>
    IN  equipment \o worker \o grid

\* C25: the total of calculate_construction_detailed is the sum of exactly
\* the gated sub-activities: one line per EquipmentUsage of a known type
\* (consumption rate * hours * fuel factor), unknown types skipped without
\* an entry or an error; a worker-transport line (km * workers * days * car
\* factor) only when the three inputs are all present and non-zero; a
\* grid-electricity line only when grid_electricity_kwh is non-zero.  The
\* breakdown lists these lines in that order, equipment in input order.
C25_DetailedGatedSum ==
    DetailedCalled =>
        LET lines == GatedLines(call.construction_input.v, call.grid_carbon_factor)
            breakdown == ret.result.value.breakdown
        IN  /\ ret.result.raised = ""
            /\ Len(breakdown) = Len(lines)
            /\ \A k \in 1..Len(lines) :
                  /\ breakdown[k].emissions_kgCO2e = RoundHalfEven(lines[k][2], 1000)
                  /\ breakdown[k].activity[1] = lines[k][3]
                  /\ lines[k][1] = "equipment" => breakdown[k].activity[2] = lines[k][4]
                  /\ lines[k][1] = "worker" => breakdown[k].activity[2] = lines[k][4]
            /\ ret.result.value.total_kgCO2e =
                   RoundHalfEven(SumSeq([k \in 1..Len(lines) |-> lines[k][2]]), 1000)

\* a request with a known, an unknown and another known equipment type,
\* worker transport and grid electricity: four lines, the bulldozer skipped
C25_Witness ==
    /\ DetailedCalled
    /\ ~call.construction_input.v.equipment_usage.is_none
    /\ Len(call.construction_input.v.equipment_usage.v) = 3
    /\ Truthy(call.construction_input.v.worker_transport_km)
    /\ Truthy(call.construction_input.v.num_workers)
    /\ Truthy(call.construction_input.v.num_days)
    /\ Truthy(call.construction_input.v.grid_electricity_kwh)
    /\ Len(ret.result.value.breakdown) = 4
    /\ ret.result.value.total_kgCO2e > 0

\* workers and days given without a distance: no worker-transport line
C25_WitnessGated ==
    /\ DetailedCalled
    /\ call.construction_input.v.worker_transport_km.is_none
    /\ Truthy(call.construction_input.v.num_workers)
    /\ Truthy(call.construction_input.v.num_days)
    /\ call.construction_input.v.equipment_usage.is_none
    /\ ~Truthy(call.construction_input.v.grid_electricity_kwh)
    /\ ret.result.value.breakdown = <<>>
    /\ ret.result.value.total_kgCO2e = 0

(***************************************************************************)
(* Claims about skipped materials, the monthly breakdown and the inputs.   *)
(***************************************************************************)
\* C26: in calculate_embodied_carbon a material whose quantity is absent
\* (the field's default 0.0) or zero gets no breakdown entry, neither a
\* success line nor an error entry, and adds nothing to the total, also when
\* its default factor is an unpopulated placeholder (glass, silicon_pv,
\* copper); without a materials object the result is the zero-result with
\* the note "No materials provided".
C26_ZeroQuantitySkipped ==
    EmbodiedCalled =>
        /\ ret.result.raised = ""
        /\ IF call.materials.is_none THEN
               /\ ret.result.value.total_kgCO2e = 0
               /\ ret.result.value.total_tonnesCO2e = 0
               /\ ret.result.value.breakdown = <<>>
               /\ ret.result.value.note = "No materials provided"
           ELSE
               LET q == call.materials.v
                   out == ret.result.value
               IN  /\ \A m \in MaterialNames :
                          q[m] = 0 => EntriesOf(out.breakdown, m) = {}
                   /\ \A i \in 1..Len(out.breakdown) :
                          q[out.breakdown[i].material] # 0
                   /\ out.total_kgCO2e =
                          RoundHalfEven(
                              SumSeq([i \in 1..Len(MaterialOrder) |->
                                  LET m == MaterialOrder[i] IN
                                  IF q[m] > 0 /\ m \in C8_Populated
                                  THEN q[m] * SIMPLIFIED_PV_MATERIAL_FACTORS[m].value
                                  ELSE 0]),
                              10)
                   /\ out.note # "No materials provided"

\* steel given, the placeholders glass, silicon_pv and copper left at zero:
\* the breakdown holds the steel line and nothing else
C26_Witness ==
    /\ EmbodiedCalled
    /\ ~call.materials.is_none
    /\ call.materials.v["steel"] = 1
    /\ \A m \in MaterialNames \ {"steel"} : call.materials.v[m] = 0
    /\ Len(ret.result.value.breakdown) = 1
    /\ ret.result.value.breakdown[1].material = "steel"
    /\ ret.result.value.total_kgCO2e = 164

\* no materials object
C26_WitnessNone ==
    /\ EmbodiedCalled
    /\ call.materials.is_none
    /\ ret.result.value.note = "No materials provided"

\* the floored generation of the timesteps 1..n that fall in the given
\* month, in 1e-5 kWh
RECURSIVE MonthSum(_, _, _, _, _, _)
MonthSum(area_m2, irr, module_efficiency, index, month, n) ==
    IF n = 0 THEN 0
    ELSE MonthSum(area_m2, irr, module_efficiency, index, month, n - 1)
         + (IF index[n] = month /\ area_m2 * irr[n] * module_efficiency > 0
            THEN area_m2 * irr[n] * module_efficiency ELSE 0)

\* the sum of the values of a mapping over the keys in S
RECURSIVE SumOfMonths(_, _)
SumOfMonths(monthly, S) ==
    IF S = {} THEN 0
    ELSE LET month == CHOOSE m \in S : TRUE IN
         monthly[month] + SumOfMonths(monthly, S \ {month})

\* C27: the monthly breakdown maps month numbers within 1..12 (the months
\* in which timesteps fall) to the sum of the floored per-timestep
\* generation of that month's timesteps; so the monthly values add up to
\* the annual total generation, which the report shows to one decimal.
C27_MonthlyBreakdown ==
    \A t \in Threads :
        (Fetched(t) /\ pc[t] = "done") =>
            LET index == pvgis[t].value.index
                irr == PrescribedSeries(pvgis[t].value)
                operational == response[t].report.operational
                monthly == operational.monthly_kwh
            IN  /\ DOMAIN monthly \subseteq 1..12
                /\ DOMAIN monthly = {index[i] : i \in 1..Len(index)}
                /\ \A month \in DOMAIN monthly :
                       monthly[month] =
                           MonthSum(req[t].area_m2, irr, req[t].module_efficiency,
                                    index, month, Len(index))
                /\ SumOfMonths(monthly, DOMAIN monthly) =
                       FlooredSum(req[t].area_m2, irr, req[t].module_efficiency,
                                  Len(irr))
                /\ operational.annual_generation_kwh =
                       RoundHalfEven(SumOfMonths(monthly, DOMAIN monthly), 10000)
                /\ response[t].report.monthly_kwh = monthly

\* a report over a series with two timesteps in July and one in January:
\* two months, July holding the sum of its two timesteps
C27_Witness ==
    \E t \in Threads :
        /\ Fetched(t)
        /\ pc[t] = "done"
        /\ pvgis[t].value.index = <<1, 7, 7>>
        /\ DOMAIN response[t].report.operational.monthly_kwh = {1, 7}
        /\ response[t].report.operational.monthly_kwh[7] >
               response[t].report.operational.monthly_kwh[1]
        /\ response[t].report.operational.monthly_kwh[7] =
               req[t].area_m2 * (800 + 250) * req[t].module_efficiency

\* thread t leaves calculate in this step, past the irradiance request
Estimates(t) == pc[t] = "get_pvgis_hourly" /\ pc'[t] # "get_pvgis_hourly"

\* C28: no calculator mutates its caller-supplied inputs: after the stage
\* computations of a request, the material quantities, the transport legs
\* and the construction request are what they were before, and the
\* irradiance series has the columns and values it was fetched with.
C28_InputsNotMutated ==
    [][\A t \in Threads :
          Estimates(t) =>
              /\ req'[t] = req[t]
              /\ pvgis'[t].raised = "" => pvgis_data'[t] = pvgis'[t].value]_vars

(***************************************************************************)
(* Claims about a failed load of the OWID table.                           *)
(***************************************************************************)
\* the last call was a grid lookup whose load of the OWID table failed:
\* the download error after the last attempt, or the missing-column error
LoadFailed ==
    /\ call.fn = "get_grid_electricity_factor"
    /\ ret.downloads > 0
    /\ \/ /\ ret.result.raised = "ValueError"
          /\ ret.result.msg = <<"Failed to download OWID data after", 3, "attempts.">>
       \/ /\ ret.result.raised = "KeyError"
          /\ ret.result.msg = <<"Missing expected OWID columns">>

\* the cache holds a complete validated table: every row has the required
\* columns with a carbon intensity, and the derived kgco2_per_kwh
CompleteTable(cache) ==
    /\ ~cache.is_none
    /\ \A i \in 1..Len(cache.rows) :
          /\ DOMAIN cache.rows[i] = RequiredColumns \cup {"kgco2_per_kwh"}
          /\ cache.rows[i].carbon_intensity_elec \in Nat
          /\ cache.rows[i].kgco2_per_kwh = cache.rows[i].carbon_intensity_elec

\* the downloads a load makes when the remote answers with the given
\* responses: up to the first answer that is not a network failure, and
\* at most max_retries
DownloadsUntilAnswer(responses) ==
    IF \E i \in 1..3 : responses[i] # NetworkError
    THEN CHOOSE i \in 1..3 :
             /\ responses[i] # NetworkError
             /\ \A j \in 1..(i - 1) : responses[j] = NetworkError
    ELSE 3

\* C29: a load that ends in failure (three network failures, or a table
\* without a required column, which is raised at once without a retry)
\* leaves the cache unpopulated; the cache is at every moment empty or a
\* complete validated table; and the next lookup without override starts a
\* fresh load that may use all 3 attempts.
C29_FailedLoadLeavesCacheEmpty ==
    /\ [](_owid_cache.is_none \/ CompleteTable(_owid_cache))
    /\ [](LoadFailed =>
              /\ call.cache_before.is_none
              /\ _owid_cache.is_none
              /\ ret.downloads = DownloadsUntilAnswer(call.responses)
              /\ Len(ret.slept) = ret.downloads - 1
              /\ ret.result.raised = "KeyError" =>
                     call.responses[ret.downloads] = OwidCsvRenamed)
    /\ [][(/\ LoadFailed
           /\ call'.fn = "get_grid_electricity_factor"
           /\ call'.override_value.is_none)
          => /\ call'.cache_before.is_none
             /\ ret'.downloads = DownloadsUntilAnswer(call'.responses)
             /\ (\A i \in 1..3 : call'.responses[i] = NetworkError)
                    => ret'.downloads = 3]_vars

\* three network failures: the call raised after its third download and
\* the cache is still empty
C29_Witness ==
    /\ LoadFailed
    /\ ret.result.raised = "ValueError"
    /\ ret.downloads = 3
    /\ ret.slept = <<1, 2>>
    /\ _owid_cache.is_none

\* a table with a renamed column on the second download: raised at once
C29_WitnessMissingColumn ==
    /\ LoadFailed
    /\ ret.result.raised = "KeyError"
    /\ ret.downloads = 2
    /\ ret.slept = <<1>>
    /\ _owid_cache.is_none

(***************************************************************************)
(* Claims about the dispatch of the construction stage.                    *)
(***************************************************************************)
ConstructionCalled == call.fn = "calculate_construction_emissions" /\ call.done

\* C30: calculate_construction_emissions handles every request variant
\* without raising: without a request it gives the Simple result at 5 %;
\* the methods "simple" and "detailed" go to their calculators; any other
\* method string gives the zero result with the note "Invalid construction
\* method", whatever the embodied total and the grid factor.
C30_ConstructionDispatch ==
    ConstructionCalled =>
        LET out == ret.result.value
            embodied == call.embodied_carbon_kgCO2e
        IN  /\ ret.result.raised = ""
            /\ IF call.construction_input.is_none THEN
                   /\ out.method = "simple_percentage"
                   /\ out.assumptions.percentage_used = 50
                   /\ out.assumptions.embodied_carbon_kgCO2e = embodied
                   /\ out.total_kgCO2e = RoundHalfEven(embodied * 5, 100)
               ELSE IF call.construction_input.v.method = "simple" THEN
                   /\ out.method = "simple_percentage"
                   /\ out.assumptions.embodied_carbon_kgCO2e = embodied
               ELSE IF call.construction_input.v.method = "detailed" THEN
                   out.method = "detailed_itemized"
               ELSE
                   out = [total_kgCO2e |-> 0, total_tonnesCO2e |-> 0,
                          note |-> "Invalid construction method"]

\* a request with the method "Detailed " (capital and trailing space), a
\* non-zero embodied total and a grid factor: the zero result with the note
C30_Witness ==
    /\ ConstructionCalled
    /\ ~call.construction_input.is_none
    /\ call.construction_input.v.method \notin {"simple", "detailed"}
    /\ call.embodied_carbon_kgCO2e > 0
    /\ Truthy(call.grid_carbon_factor)
    /\ ret.result.value.total_kgCO2e = 0
    /\ ret.result.value.note = "Invalid construction method"

\* no request at all: 5 % of 10 t is 500 kg
C30_WitnessDefault ==
    /\ ConstructionCalled
    /\ call.construction_input.is_none
    /\ call.embodied_carbon_kgCO2e = 1000000
    /\ ret.result.value.total_kgCO2e = 50000

====
